---- MODULE Spec2Model ----
(***************************************************************************)
(* The coverage-gated test-generation pipeline of the auto test generator: *)
(* the coverage analyzer (AnalyzeFile, parseCoverageOutput,                *)
(* ExtractModifiedFunctions), the test generator (GenerateTests and its    *)
(* cleanup and validation steps), the pull-request creator (CreateTestPR,  *)
(* createOrUpdateFile, CommentOnPR) against a remote repository, and the   *)
(* driver loop of main.                                                    *)
(*                                                                         *)
(* Text is modelled as sequences of tokens, paths as a directory (a        *)
(* sequence of components) plus a file name (a base and its suffixes), and *)
(* float64 values as normalised decimal fractions [num, den].              *)
(***************************************************************************)
EXTENDS Integers, Sequences, FiniteSets, TLC

VARIABLES
    build,      \* which copy of the analyzer the binary was built from
    cwd,        \* the process working directory (absolute, below the repo root)
    cwd0,       \* the working directory the process was started in
    threshold,  \* Config.CoverageThreshold
    files,      \* the files that exist on disk (absolute paths)
    covOut,     \* the directories that hold a coverage.out
    probe,      \* the last AnalyzeFile call: its inputs, the runner's behaviour, its result
    changed,    \* the entries of Config.ChangedFiles, split on newlines
    idx,        \* main's loop index into changed
    pc,         \* main's position within the loop body
    stages,     \* per entry of changed: the stages main ran for it
    comments,   \* the CommentOnPR calls main made, in order
    src,        \* the source file handed to ExtractModifiedFunctions
    functions,  \* the []FunctionInfo returned by ExtractModifiedFunctions
    gen,        \* the last call into the test generator: its inputs, the model's answer, its result
    remote,     \* the remote repository, the requests sent to it and the last publisher calls
    prNumber,   \* Config.PRNumber
    calls,      \* the operations main called, in order, each with the entry it was called for
    config,     \* the required flags of the command line and how the process ended
    calc,       \* a Calculator and the result of the last call on it
    fact        \* the last Factorial call: its argument and what both packages returned

vars == <<build, cwd, cwd0, threshold, files, covOut, probe, changed, idx, pc,
          stages, comments, src, functions, gen, remote, prNumber, calls, config, calc, fact>>

\* a command line with every required flag, before parseFlags has run
AllFlags ==
    [RepoOwner |-> "acme", RepoName |-> "demo", GithubToken |-> "ghp", GeminiAPIKey |-> "key",
     exit |-> "running"]

\* no Calculator constructed yet
NoCalculator == [made |-> FALSE, pkg |-> "none", history |-> <<>>, log |-> <<>>]

\* no Factorial call made yet
NoFactorial == [called |-> FALSE, pkg |-> "none", bits |-> 0, n |-> 0, at |-> "none", k |-> 0, result |-> <<>>, err |-> ""]

\* "no coverage line" where a percentage in tenths is expected
NoCoverage == -1

\* ------------------------------------------------------------------ bounds

MaxLines == 2      \* lines of runner output
MaxFiles == 2      \* entries of the changed-file list
MaxItems == 2      \* top-level items of a parsed source file
MaxParts == 3      \* pieces of the text the generation call returns
MaxSegments == 2   \* parts of one candidate of the generation call
MaxSpecs == 2      \* lines between the parentheses of an import declaration
MaxCalls == 2      \* calls made on one Calculator

\* ---------------------------------------------------------------- float64

\* A decimal fraction num/den, den a power of ten, without trailing zeros.
RECURSIVE Normalize(_)
Normalize(d) ==
    IF d.den > 1 /\ d.num % 10 = 0
    THEN Normalize([num |-> d.num \div 10, den |-> d.den \div 10])
    ELSE d

Dec(n, d) == Normalize([num |-> n, den |-> d])

Zero == Dec(0, 1)

\* the comparison written as a <= b
Less_OrEqual(a, b) == a.num * b.den <= b.num * a.den

\* a < b on float64 values
Less(a, b) == a.num * b.den < b.num * a.den

RECURSIVE Pow10(_)
Pow10(n) == IF n = 0 THEN 1 ELSE 10 * Pow10(n - 1)

\* ------------------------------------------------------------------ text

Digits == <<"0", "1", "2", "3", "4", "5", "6", "7", "8", "9">>

IsDigit(c) == \E i \in 1..10 : Digits[i] = c

DigitVal(c) == (CHOOSE i \in 1..10 : Digits[i] = c) - 1

RECURSIVE DigitsValue(_)
DigitsValue(ds) ==
    IF ds = <<>> THEN 0
    ELSE 10 * DigitsValue(SubSeq(ds, 1, Len(ds) - 1)) + DigitVal(ds[Len(ds)])

RECURSIVE ToDigits(_)
ToDigits(n) ==
    IF n < 10 THEN <<Digits[n + 1]>>
    ELSE ToDigits(n \div 10) \o <<Digits[(n % 10) + 1]>>

RECURSIVE Concat(_)
Concat(ss) == IF ss = <<>> THEN <<>> ELSE Head(ss) \o Concat(Tail(ss))

\* a substring test that never answers yes
Contains_Never(text, tok) == FALSE

\* strings.Contains(text, token)
Contains(text, tok) == \E i \in 1..Len(text) : text[i] = tok

\* strings.HasPrefix / strings.HasSuffix on token sequences
HasPrefix(s, p) == Len(s) >= Len(p) /\ SubSeq(s, 1, Len(p)) = p

HasSuffix(s, p) == Len(s) >= Len(p) /\ SubSeq(s, Len(s) - Len(p) + 1, Len(s)) = p

\* the token "testing" between its double quotes, and the three backquotes
\* of a markdown code fence
TestingImport == "\"testing\""

Fence == "fence"

\* strings.Contains(s, sub) for a text sub of several tokens
ContainsText(s, sub) == \E i \in 1..(Len(s) - Len(sub) + 1) : SubSeq(s, i, i + Len(sub) - 1) = sub

\* strings.ReplaceAll(s, old, ""): the non-overlapping occurrences, left to right
RECURSIVE ReplaceAll(_, _)
ReplaceAll(s, old) ==
    IF Len(s) < Len(old) THEN s
    ELSE IF SubSeq(s, 1, Len(old)) = old
    THEN ReplaceAll(SubSeq(s, Len(old) + 1, Len(s)), old)
    ELSE <<Head(s)>> \o ReplaceAll(Tail(s), old)

\* strings.Split(s, "\n"): the lines of s, without their newlines
RECURSIVE Split(_)
Split(s) ==
    LET at == {i \in 1..Len(s) : s[i] = "\n"}
    IN  IF at = {} THEN <<s>>
        ELSE LET i == CHOOSE j \in at : \A k \in at : j <= k
             IN  <<SubSeq(s, 1, i - 1)>> \o Split(SubSeq(s, i + 1, Len(s)))

\* unicode.IsSpace on a token
IsSpace(c) == c \in {" ", "\t", "\n"}

RECURSIVE TrimLeft(_)
TrimLeft(s) == IF s # <<>> /\ IsSpace(Head(s)) THEN TrimLeft(Tail(s)) ELSE s

RECURSIVE TrimRight(_)
TrimRight(s) ==
    IF s # <<>> /\ IsSpace(s[Len(s)]) THEN TrimRight(SubSeq(s, 1, Len(s) - 1)) ELSE s

\* strings.TrimSpace
TrimSpace(s) == TrimRight(TrimLeft(s))

\* strings.Fields: the maximal runs of tokens that are not white space
RECURSIVE Fields(_)
Fields(s) ==
    LET t  == TrimLeft(s)
        sp == {i \in 1..Len(t) : IsSpace(t[i])}
    IN  IF t = <<>> THEN <<>>
        ELSE IF sp = {} THEN <<t>>
        ELSE LET i == CHOOSE j \in sp : \A k \in sp : j <= k
             IN  <<SubSeq(t, 1, i - 1)>> \o Fields(SubSeq(t, i, Len(t)))

\* ----------------------------------------------------------------- paths

\* strings.TrimSuffix(path, ".go") + "_test.go", on the suffixes of the file name
TrimGo(exts) ==
    IF HasSuffix(exts, <<".go">>) THEN SubSeq(exts, 1, Len(exts) - 1) ELSE exts

\* the test file's name computed without the "_test.go" suffix
TestFileOf_SamePath(p) == p

TestFileOf(p) == [p EXCEPT !.exts = TrimGo(p.exts) \o <<"_test", ".go">>]

\* filepath.Join("..", filePath)
JoinParent(p) == [p EXCEPT !.dir = <<"..">> \o p.dir]

\* the cleaned absolute directory wd/d ("..", applied left to right)
RECURSIVE Clean(_, _)
Clean(stack, d) ==
    IF d = <<>> THEN stack
    ELSE IF Head(d) = ".."
         THEN Clean(IF stack = <<>> THEN <<>> ELSE SubSeq(stack, 1, Len(stack) - 1), Tail(d))
         ELSE Clean(Append(stack, Head(d)), Tail(d))

\* filepath.Abs(dir) with the process in wd
Abs(wd, d) == Clean(wd, d)

\* the absolute path a relative path names with the process in wd
AbsFile(wd, p) == [p EXCEPT !.dir = Abs(wd, p.dir)]

resolveFilePath(wd, filePath) ==
    IF HasSuffix(wd, <<"scripts">>) THEN JoinParent(filePath) ELSE filePath

\* the directories of the repository
RepoDirs == {<<>>, <<"pkg">>, <<"scripts">>}

\* --------------------------------------------------------- the test runner

\* One line of `go test -cover` output, as the runner prints it.
CoverageLine(c) ==
    <<"ok", "coverage: ">> \o ToDigits(c \div 10) \o <<".", Digits[(c % 10) + 1]>>
        \o <<"% of statements", "\n">>

FormatLine(l) ==
    CASE l.kind = "coverage"     -> CoverageLine(l.tenths)
      [] l.kind = "no-test-files" -> <<"?", "no test files", "]", "\n">>
      [] l.kind = "no-statements" -> <<"ok", "coverage: ", "[no statements]", "\n">>
      [] OTHER                    -> <<"FAIL", "\n">>

FormatOutput(lines) == Concat([i \in 1..Len(lines) |-> FormatLine(lines[i])])

\* measured percentages, in tenths of a percent
CoverageTenths == {0, 399, 400, 555, 1000}

OutLine ==
    [kind : {"coverage"}, tenths : CoverageTenths]
        \cup [kind : {"no-test-files", "no-statements", "other"}, tenths : {0}]

RECURSIVE SeqsUpTo(_, _)
SeqsUpTo(S, n) ==
    IF n = 0 THEN {<<>>}
    ELSE LET shorter == SeqsUpTo(S, n - 1)
         IN  shorter \cup {Append(s, x) : s \in {t \in shorter : Len(t) = n - 1}, x \in S}

\* what the runner does when it is invoked: its exit status, the lines it
\* prints and whether it writes the coverage profile
RunnerRuns ==
    [exitOk : BOOLEAN, lines : SeqsUpTo(OutLine, MaxLines), wrote : BOOLEAN]

\* ------------------------------------------------------ parseCoverageOutput

\* the longest run of digits of text starting at position i
RECURSIVE DigitRun(_, _)
DigitRun(text, i) ==
    IF i <= Len(text) /\ IsDigit(text[i]) THEN <<text[i]>> \o DigitRun(text, i + 1)
    ELSE <<>>

\* no match: a match always has a digit before the point
NoMatch == [int |-> <<>>, frac |-> <<>>]

\* regexp `coverage: (\d+\.?\d*)% of statements` anchored at position i:
\* the submatch as [int, frac], or NoMatch
MatchAt(text, i) ==
    IF text[i] # "coverage: " THEN NoMatch
    ELSE LET int  == DigitRun(text, i + 1)
             j    == i + 1 + Len(int)
             dot  == j <= Len(text) /\ text[j] = "."
             k    == IF dot THEN j + 1 ELSE j
             frac == DigitRun(text, k)
             e    == k + Len(frac)
         IN  IF int # <<>> /\ e <= Len(text) /\ text[e] = "% of statements"
             THEN [int |-> int, frac |-> frac]
             ELSE NoMatch

\* re.FindStringSubmatch: the leftmost match
FindStringSubmatch(text) ==
    LET hits == {i \in 1..Len(text) : MatchAt(text, i) # NoMatch}
    IN  IF hits = {} THEN NoMatch
        ELSE MatchAt(text, CHOOSE i \in hits : \A j \in hits : i <= j)

\* strconv.ParseFloat of the submatch
ParseFloat(m) == Dec(DigitsValue(m.int \o m.frac), Pow10(Len(m.frac)))

\* no match reported as an error instead of as 0%
parseCoverageOutput_NoMatchFails(output) ==
    LET matches == FindStringSubmatch(output)
    IN  IF matches = NoMatch THEN [coverage |-> Zero, err |-> TRUE]
        ELSE [coverage |-> ParseFloat(matches), err |-> FALSE]

parseCoverageOutput(output) ==
    LET matches == FindStringSubmatch(output)
    IN  IF matches = NoMatch THEN [coverage |-> Zero, err |-> FALSE]
        ELSE [coverage |-> ParseFloat(matches), err |-> FALSE]

\* ------------------------------------------------------------ AnalyzeFile

\* a file system on which every path exists
Exists_Always(fs, wd, p) == TRUE

\* os.Stat(path) succeeds
Exists(fs, wd, p) == AbsFile(wd, p) \in fs

\* the runner, invoked with the process in directory d
RunGoTest(cov, d, run) == IF run.wrote THEN cov \cup {d} ELSE cov

\* os.Remove("coverage.out") with the process in directory d
RemoveCoverageOut(cov, d) == cov \ {d}

\* the deferred function without its os.Chdir(originalDir)
DeferredRestore_NoChdir(originalDir, cur, cov) ==
    [cwd |-> cur, covOut |-> RemoveCoverageOut(cov, cur)]

\* the deferred function of AnalyzeFile, run on every return after the chdir
\* with the process in directory cur: os.Chdir(originalDir), then
\* os.Remove("coverage.out")
DeferredRestore(originalDir, cur, cov) ==
    [cwd |-> originalDir, covOut |-> RemoveCoverageOut(cov, originalDir)]

\* the result of a call: the returned triple and the state it leaves behind
Result(needsTests, coverage, err, wd, cov, ran, ranIn) ==
    [needsTests |-> needsTests, coverage |-> coverage, err |-> err,
     cwd |-> wd, covOut |-> cov, ran |-> ran, ranIn |-> ranIn]

\* CoverageAnalyzer.AnalyzeFile, the copy that resolves the path and runs the
\* runner inside the package directory
AnalyzeFile(wd, fs, cov, filePath, thr, run) ==
    LET resolvedPath  == resolveFilePath(wd, filePath)
        testFile      == TestFileOf(resolvedPath)
        packageDir    == resolvedPath.dir
        originalDir   == wd
        absPackageDir == Abs(wd, packageDir)
        \* cmd.CombinedOutput() with the process in absPackageDir
        afterRun      == RunGoTest(cov, absPackageDir, run)
        output        == FormatOutput(run.lines)
        parsed        == parseCoverageOutput(output)
        after         == DeferredRestore(originalDir, absPackageDir, afterRun)
        Return(n, c, e) == Result(n, c, e, after.cwd, after.covOut, TRUE, absPackageDir)
    IN  IF ~Exists(fs, wd, testFile)
        THEN Result(TRUE, Zero, "", wd, cov, FALSE, wd)
        ELSE IF absPackageDir \notin RepoDirs
        THEN Result(FALSE, Zero, "failed to change to package directory", wd, cov, FALSE, wd)
        ELSE IF ~run.exitOk
        THEN IF Contains(output, "no test files")
             THEN Return(TRUE, Zero, "")
             ELSE Return(FALSE, Zero, "failed to run coverage")
        ELSE IF parsed.err
        THEN Return(FALSE, Zero, "failed to parse coverage output")
        ELSE Return(Less(parsed.coverage, thr), parsed.coverage, "")

\* CoverageAnalyzer.AnalyzeFile, the copy under scripts/: the path is used as
\* given and the runner is handed the package directory as an argument
AnalyzeFile_scripts(wd, fs, cov, filePath, thr, run) ==
    LET testFile   == TestFileOf(filePath)
        afterRun   == RunGoTest(cov, wd, run)
        output     == FormatOutput(run.lines)
        parsed     == parseCoverageOutput(output)
    IN  IF ~Exists(fs, wd, testFile)
        THEN Result(TRUE, Zero, "", wd, cov, FALSE, wd)
        ELSE IF ~run.exitOk
        THEN IF Contains(output, "no test files")
             THEN Result(TRUE, Zero, "", wd, afterRun, TRUE, wd)
             ELSE Result(FALSE, Zero, "failed to run coverage", wd, afterRun, TRUE, wd)
        ELSE IF parsed.err
        THEN Result(FALSE, Zero, "failed to parse coverage output", wd, afterRun, TRUE, wd)
        ELSE Result(Less(parsed.coverage, thr), parsed.coverage, "", wd,
                    RemoveCoverageOut(afterRun, wd), TRUE, wd)

Builds == {"resolved", "scripts"}

\* coverageAnalyzer.AnalyzeFile(ctx, file, config.CoverageThreshold) in the build b
CallAnalyzeFile(b, wd, fs, cov, filePath, thr, run) ==
    IF b = "resolved" THEN AnalyzeFile(wd, fs, cov, filePath, thr, run)
    ELSE AnalyzeFile_scripts(wd, fs, cov, filePath, thr, run)

\* ------------------------------------------------- ExtractModifiedFunctions

UpperCase == {"A", "B", "C", "D", "E", "F", "G", "H", "I", "J", "K", "L", "M",
              "N", "O", "P", "Q", "R", "S", "T", "U", "V", "W", "X", "Y", "Z"}

\* ast.Ident.IsExported: the name begins with an upper-case letter
IsExported(name) == name # <<>> /\ name[1] \in UpperCase

\* a FuncDecl without a body (an external function)
NoBody == -1

\* one line of a source file
Line(text, of, n) == [text |-> text, of |-> of, n |-> n]

NL == Line("\n", 0, 0)

\* the lines item k of a source file is written on
ItemLines(it, k) ==
    IF it.kind = "line" THEN <<Line("//line", k, 0)>>
    ELSE IF it.kind # "func" THEN <<Line("// comment", k, 0)>>
    ELSE IF it.body = NoBody THEN <<Line("func", k, 0)>>
    ELSE IF it.oneLine THEN <<Line("func { }", k, 0)>>
    ELSE <<Line("func {", k, 0)>> \o [j \in 1..it.body |-> Line("stmt", k, j)]
             \o <<Line("}", k, 0)>>

\* strings.Split(string(content), "\n") of a file that ends with a newline
SplitLines(items) ==
    Concat([k \in 1..Len(items) |-> ItemLines(items[k], k)]) \o <<Line("", 0, 0)>>

\* parser.ParseFile and FileSet.Position: the FuncDecls of the file in source
\* order, with the lines of fn.Pos() and fn.End().  Position reports adjusted
\* positions: the line after a "//line file:n" comment is line n.  decl is
\* the place of the declaration among the items of the file.
RECURSIVE ParseFrom(_, _, _)
ParseFrom(items, k, line) ==
    IF k > Len(items) THEN <<>>
    ELSE LET n == Len(ItemLines(items[k], k))
         IN  (IF items[k].kind = "func"
              THEN <<[name |-> items[k].name, body |-> items[k].body, decl |-> k,
                      startLine |-> line, endLine |-> line + n - 1]>>
              ELSE <<>>)
                 \o ParseFrom(items, k + 1,
                              IF items[k].kind = "line" THEN items[k].to ELSE line + n)

ParseFile(items) == ParseFrom(items, 1, 1)

\* the getter/setter heuristic written as "3 statements or fewer"
shouldIncludeFunction_AtMost3(fn) ==
    IF fn.name = <<>> THEN FALSE
    ELSE IF HasPrefix(fn.name, <<"T", "e", "s", "t">>)
            \/ HasPrefix(fn.name, <<"B", "e", "n", "c", "h", "m", "a", "r", "k">>)
    THEN FALSE
    ELSE IF fn.body # NoBody /\ fn.body <= 3
    THEN FALSE
    ELSE TRUE

shouldIncludeFunction(fn) ==
    IF fn.name = <<>> THEN FALSE
    ELSE IF HasPrefix(fn.name, <<"T", "e", "s", "t">>)
            \/ HasPrefix(fn.name, <<"B", "e", "n", "c", "h", "m", "a", "r", "k">>)
    THEN FALSE
    ELSE IF fn.body # NoBody /\ fn.body < 3
    THEN FALSE
    ELSE TRUE

\* the selection of the ast.Inspect callback
Selected(fn) == IsExported(fn.name) \/ shouldIncludeFunction(fn)

\* the loop that copies lines[startLine-1 .. endLine-1], each with a "\n"
RECURSIVE CopyLines(_, _, _)
CopyLines(lines, i, endLine) ==
    IF i < endLine /\ i < Len(lines)
    THEN <<lines[i + 1], NL>> \o CopyLines(lines, i + 1, endLine)
    ELSE <<>>

\* the descriptor appended for fn; Decl is not a field of the struct, it
\* records which declaration the descriptor was made from
FunctionInfo(fn, lines) ==
    [Name |-> fn.name, Content |-> CopyLines(lines, fn.startLine - 1, fn.endLine),
     StartLine |-> fn.startLine, EndLine |-> fn.endLine, Decl |-> fn.decl]

RECURSIVE InspectDecls(_, _)
InspectDecls(decls, lines) ==
    IF decls = <<>> THEN <<>>
    ELSE (IF Selected(Head(decls)) THEN <<FunctionInfo(Head(decls), lines)>> ELSE <<>>)
             \o InspectDecls(Tail(decls), lines)

\* a source file: whether it can be read, whether it parses, and its items
ExtractModifiedFunctions(file) ==
    IF ~file.readable THEN [err |-> "failed to read file", list |-> <<>>]
    ELSE IF ~file.parses THEN [err |-> "failed to parse file", list |-> <<>>]
    ELSE [err |-> "", list |-> InspectDecls(ParseFile(file.items), SplitLines(file.items))]

\* ------------------------------------------------------- source files

Name(kind) ==
    CASE kind = "TestAdd"      -> <<"T", "e", "s", "t", "A", "d", "d">>
      [] kind = "BenchmarkAdd" -> <<"B", "e", "n", "c", "h", "m", "a", "r", "k", "A", "d", "d">>
      [] kind = "Add"          -> <<"A", "d", "d">>
      [] kind = "add"          -> <<"a", "d", "d">>
      [] OTHER                 -> <<"t", "e", "s", "t", "A", "d", "d">>

FuncNames == {Name(k) : k \in {"TestAdd", "BenchmarkAdd", "Add", "add", "testAdd"}}

BodySizes == {0, 2, 3}

\* the line numbers a "//line" comment may name
LineTargets == {1, 50}

\* functions written over several lines, functions written on one line,
\* functions without a body, "//line file:n" comments and other lines
Item ==
    [kind : {"func"}, name : FuncNames, body : BodySizes, oneLine : {FALSE}, to : {0}]
        \cup [kind : {"func"}, name : FuncNames, body : {NoBody, 3}, oneLine : {TRUE},
               to : {0}]
        \cup [kind : {"line"}, name : {<<>>}, body : {NoBody}, oneLine : {TRUE},
               to : LineTargets]
        \cup {[kind |-> "other", name |-> <<>>, body |-> NoBody, oneLine |-> TRUE,
                to |-> 0]}

\* clause is the package clause of the file
GoFile(items) ==
    [readable |-> TRUE, parses |-> TRUE, items |-> items,
     clause |-> <<"package", " ", "calc", "\n">>]

NotGo == [readable |-> TRUE, parses |-> FALSE, items |-> <<>>, clause |-> <<>>]

Missing == [readable |-> FALSE, parses |-> FALSE, items |-> <<>>, clause |-> <<>>]

Func(kind, body) ==
    [kind |-> "func", name |-> Name(kind), body |-> body, oneLine |-> FALSE, to |-> 0]

\* ------------------------------------------------------- the repository

Path(dir, base, exts) == [dir |-> dir, base |-> base, exts |-> exts]

FactorialGo == Path(<<"pkg">>, "factorial", <<".go">>)

DocGo == Path(<<"pkg">>, "doc", <<".go">>)

CalculatorGo == Path(<<"pkg">>, "calculator", <<".go">>)

ReadmeMd == Path(<<>>, "README", <<".md">>)

\* an entry of the changed-file list that is blank after strings.TrimSpace
Blank == Path(<<>>, "", <<>>)

ChangedPaths == {FactorialGo, DocGo, CalculatorGo, ReadmeMd}

\* the test files that may exist next to the changed files
TestFiles == {TestFileOf(FactorialGo), TestFileOf(DocGo)}

FileSystems == {ChangedPaths \cup t : t \in SUBSET TestFiles}

\* os.ReadFile and the parser on the file at an absolute path
SourceAt(fs, p) ==
    IF p \notin fs THEN Missing
    ELSE IF p = FactorialGo THEN GoFile(<<Func("Add", 3), Func("add", 3)>>)
    ELSE IF p = DocGo THEN GoFile(<<Func("add", 2)>>)
    ELSE IF p = CalculatorGo THEN GoFile(<<Func("Divide", 3)>>)
    ELSE NotGo

StartDirs == {<<>>, <<"scripts">>}

\* the default of the coverage-threshold flag
DefaultThreshold == Dec(40, 1)

Thresholds == {Dec(0, 1), DefaultThreshold, Dec(555, 10)}

\* ------------------------------------------------------- GenerateTests

\* the deferred os.Chdir(originalDir) of validateGeneratedCode, with the
\* process in directory cur
DeferredChdir(originalDir, cur) == originalDir

\* writable: whether os.WriteFile can create the temporary file
validateGeneratedCode(wd, fs, originalFilePath, writable) ==
    LET testFilePath  == [originalFilePath EXCEPT
                             !.exts = TrimGo(originalFilePath.exts) \o <<"_test_temp", ".go">>]
        written       == AbsFile(wd, testFilePath)
        packageDir    == originalFilePath.dir
        absPackageDir == Abs(wd, packageDir)
        originalDir   == wd
        \* deferred, last first: os.Chdir(originalDir), os.Remove(testFilePath)
        back          == DeferredChdir(originalDir, absPackageDir)
    IN  IF written.dir \notin RepoDirs \/ ~writable
        THEN [err |-> "failed to write temp test file", cwd |-> wd, files |-> fs]
        ELSE IF absPackageDir \notin RepoDirs
        THEN [err |-> "failed to change to package directory", cwd |-> wd,
              files |-> (fs \cup {written}) \ {written}]
        ELSE [err |-> "", cwd |-> back,
              files |-> (fs \cup {written}) \ {AbsFile(back, testFilePath)}]

\* the loop of extractPackageInfo over the remaining lines, with the package
\* name and the imports found so far and the inImportBlock flag
RECURSIVE ScanLines(_, _, _, _)
ScanLines(lines, packageName, imports, inImportBlock) ==
    IF lines = <<>> THEN [packageName |-> packageName, imports |-> imports]
    ELSE LET line == TrimSpace(Head(lines))
             rest == Tail(lines)
             name == IF HasPrefix(line, <<"package", " ">>) /\ Len(Fields(line)) >= 2
                     THEN Fields(line)[2]
                     ELSE packageName
         IN  IF HasPrefix(line, <<"import", " ", "(">>)
             THEN ScanLines(rest, name, imports, TRUE)
             ELSE IF inImportBlock
             THEN IF line = <<")">>
                  THEN ScanLines(rest, name, imports, FALSE)
                  ELSE IF line # <<>> /\ ~HasPrefix(line, <<"//">>)
                  THEN ScanLines(rest, name, Append(imports, line), TRUE)
                  ELSE ScanLines(rest, name, imports, TRUE)
             ELSE IF HasPrefix(line, <<"import", " ">>)
             THEN ScanLines(rest, name, Append(imports, SubSeq(line, 3, Len(line))), FALSE)
             ELSE ScanLines(rest, name, imports, FALSE)

extractPackageInfo(content) == ScanLines(Split(content), <<>>, <<>>, FALSE)

\* what buildPrompt puts into the prompt besides its fixed text
buildPrompt(filePath, originalContent, fns, packageName) ==
    [file |-> filePath, package |-> packageName, content |-> originalContent,
     functions |-> [i \in 1..Len(fns) |-> [Name |-> fns[i].Name, Content |-> fns[i].Content]]]

\* the loop of cleanupGeneratedCode that writes the lines back and adds the
\* import after the first package line
RECURSIVE InsertImport(_, _)
InsertImport(lines, importAdded) ==
    IF lines = <<>> THEN <<>>
    ELSE LET line == Head(lines)
             here == HasPrefix(TrimSpace(line), <<"package", " ">>) /\ ~importAdded
         IN  line \o <<"\n">>
                 \o (IF here THEN <<"\n", "import", " ", TestingImport, "\n">> ELSE <<>>)
                 \o InsertImport(Tail(lines), importAdded \/ here)

cleanupGeneratedCode(generatedCode, packageName) ==
    LET unfenced == ReplaceAll(ReplaceAll(generatedCode, <<Fence, "go">>), <<Fence>>)
        declared == IF ~ContainsText(unfenced, <<"package", " ">>)
                    THEN <<"package", " ">> \o packageName \o <<"\n", "\n">> \o unfenced
                    ELSE unfenced
        imported == IF ~ContainsText(declared, <<TestingImport>>)
                    THEN InsertImport(Split(declared), FALSE)
                    ELSE declared
    IN  TrimSpace(imported)

\* a genai.Part: a genai.Text or a part of another type
TextPart(t) == [text |-> TRUE, s |-> t]

BlobPart == [text |-> FALSE, s |-> <<>>]

\* the text of the first part only
TextOf_FirstPart(parts) ==
    IF parts # <<>> /\ Head(parts).text THEN Head(parts).s ELSE <<>>

\* the text of the parts of a candidate that are genai.Text, in order
RECURSIVE TextOf(_)
TextOf(parts) ==
    IF parts = <<>> THEN <<>>
    ELSE (IF Head(parts).text THEN Head(parts).s ELSE <<>>) \o TextOf(Tail(parts))

\* a genai.Candidate: content is FALSE when Candidate.Content is nil
Candidate(parts) == [content |-> TRUE, parts |-> parts]

NilContent == [content |-> FALSE, parts |-> <<>>]

\* the answer of GenerateContent
GenError == [err |-> TRUE, candidates |-> <<>>]

Answer(candidates) == [err |-> FALSE, candidates |-> candidates]

NoGen ==
    [called |-> FALSE, present |-> FALSE, content |-> <<>>, resp |-> GenError,
     invoked |-> FALSE, prompt |-> buildPrompt(Blank, <<>>, <<>>, <<>>),
     panicked |-> FALSE, validated |-> FALSE, validErr |-> "", generatedCode |-> <<>>,
     packageName |-> <<>>, imports |-> <<>>, lines |-> <<>>, testContent |-> <<>>, err |-> ""]

\* GenerateTests with the process in wd: content is the text of the original
\* file, resp the answer of the generation call, writable whether the
\* temporary test file can be written
GenerateTests(wd, fs, filePath, fns, content, resp, writable) ==
    LET resolvedPath  == resolveFilePath(wd, filePath)
        present       == Exists(fs, wd, resolvedPath)
        packageName   == extractPackageInfo(content).packageName
        prompt        == buildPrompt(filePath, content, fns, packageName)
        generatedCode == TextOf(resp.candidates[1].parts)
        testContent   == cleanupGeneratedCode(generatedCode, packageName)
        valid         == validateGeneratedCode(wd, fs, resolvedPath, writable)
        Called        == [NoGen EXCEPT !.called = TRUE, !.present = present,
                                       !.content = content, !.resp = resp]
        Invoked       == [Called EXCEPT !.invoked = TRUE, !.prompt = prompt,
                                        !.packageName = packageName,
                                        !.imports = extractPackageInfo(content).imports]
        Return(g, e)  == [gen |-> [g EXCEPT !.err = e], cwd |-> wd, files |-> fs]
    IN  IF ~present THEN Return(Called, "failed to read original file")
        ELSE IF resp.err THEN Return(Invoked, "failed to generate content")
        ELSE IF Len(resp.candidates) = 0 THEN Return(Invoked, "no content generated")
        ELSE IF ~resp.candidates[1].content
        THEN Return([Invoked EXCEPT !.panicked = TRUE], "")
        ELSE IF valid.err # ""
        THEN [gen   |-> [Invoked EXCEPT !.validated = TRUE, !.generatedCode = generatedCode,
                                         !.validErr = valid.err,
                                         !.err = "generated code doesn't compile"],
              cwd   |-> valid.cwd,
              files |-> valid.files]
        ELSE [gen   |-> [Invoked EXCEPT !.validated = TRUE, !.generatedCode = generatedCode,
                                         !.testContent = testContent],
              cwd   |-> valid.cwd,
              files |-> valid.files]

\* ------------------------------------------------- the remote repository

\* a commit: the head of main it was made from and the files written since
Commit(base, writes) == [base |-> base, writes |-> writes]

\* content after base64.StdEncoding.EncodeToString, and after the json
\* encoding of a []byte field, which is base64 as well
EncodeToString(content) == [content EXCEPT !.b64 = @ + 1]

Marshal(content) == EncodeToString(content)

\* the contents API decodes the content field once before it stores it
Decode(content) == [content EXCEPT !.b64 = @ - 1]

Plain(text) == [text |-> text, b64 |-> 0]

\* a file version: who wrote it and what it holds; its sha stands for both
Blob(by, content) == [by |-> by, content |-> content]

NoBlob == Blob("nobody", Plain(<<>>))

MainBlob == Blob("main", Plain(<<>>))

OtherBlob == Blob("other", Plain(<<>>))

NoBranch == [exists |-> FALSE, sha |-> Commit(0, <<>>), stale |-> FALSE]

\* stale marks a branch left by an earlier run
Branch(sha) == [exists |-> TRUE, sha |-> sha, stale |-> FALSE]

\* the version of path in the tree of commit sha
RECURSIVE LastWrite(_, _)
LastWrite(writes, path) ==
    IF writes = <<>> THEN NoBlob
    ELSE IF writes[Len(writes)].path = path THEN writes[Len(writes)].blob
    ELSE LastWrite(SubSeq(writes, 1, Len(writes) - 1), path)

FileAt(R, sha, path) ==
    IF LastWrite(sha.writes, path) # NoBlob THEN LastWrite(sha.writes, path)
    ELSE IF path \in R.onMain THEN MainBlob
    ELSE NoBlob

NoDescription == [file |-> <<>>, coverage |-> <<>>, threshold |-> <<>>]

NoCommit == Commit(0, <<>>)

\* a request as the remote receives it: sha is the commit a new ref points
\* at, fileSHA the version of the file the request names as the one it replaces
Request(op, ref, path, sha, fileSHA, content, body) ==
    [op |-> op, ref |-> ref, path |-> path, sha |-> sha, fileSHA |-> fileSHA,
     content |-> content, body |-> body]

RefRequest(op, ref, sha) == Request(op, ref, <<>>, sha, NoBlob, Plain(<<>>), NoDescription)

FileRequest(op, ref, path, fileSHA, content) ==
    Request(op, ref, path, NoCommit, fileSHA, content, NoDescription)

PRRequest(ref, body) == Request("CreatePR", ref, <<>>, NoCommit, NoBlob, Plain(<<>>), body)

Sent(R, req) == [R EXCEPT !.log = Append(@, req)]

\* how the call made at a step ends: "ok" (the remote answers), "error" (an
\* answer with a failure status that is not 404) or "none" (no answer at all)
Outcome(step, fault) == IF fault.at = step THEN fault.kind ELSE "ok"

\* DELETE of a branch ref: pull requests from that branch are closed
DeleteRefServed(R, branchName) ==
    [R EXCEPT !.branches[branchName] = NoBranch,
              !.prs = [i \in 1..Len(R.prs) |->
                          IF R.prs[i].head = branchName
                          THEN [R.prs[i] EXCEPT !.open = FALSE]
                          ELSE R.prs[i]]]

\* POST of a new ref
CreateRefServed(R, branchName, sha) == [R EXCEPT !.branches[branchName] = Branch(sha)]

\* PUT of a file on a branch: a new commit on top of the branch head
PutFileServed(R, branchName, path, blob) ==
    [R EXCEPT !.branches[branchName].sha.writes =
                  Append(@, [path |-> path, blob |-> blob])]

\* POST of a pull request
CreatePRServed(R, branchName, title, body) ==
    [R EXCEPT !.prs = Append(@, [head |-> branchName, base |-> "main", title |-> title,
                                 body |-> body, open |-> TRUE])]

\* what another writer does while the publisher is between two calls
MainMoves(R) == [R EXCEPT !.main = Commit(R.main.base + 1, <<>>)]

OtherCreatesBranch(R, branchName) ==
    IF R.branches[branchName].exists THEN R
    ELSE [R EXCEPT !.branches[branchName] = Branch(R.main)]

OtherWritesFile(R, branchName, path) ==
    IF R.branches[branchName].exists THEN PutFileServed(R, branchName, path, OtherBlob)
    ELSE R

\* ------------------------------------------------------------ CreateTestPR

\* fmt.Sprintf("%.2f", x) for a decimal fraction with at most two decimals
Fixed2(x) ==
    LET hundredths == (x.num * 100) \div x.den
        frac       == hundredths % 100
    IN  ToDigits(hundredths \div 100)
            \o <<".", Digits[(frac \div 10) + 1], Digits[(frac % 10) + 1]>>

\* the parts of the description that are not fixed text
buildPRDescription(originalFile, coverage) ==
    [file |-> originalFile, coverage |-> Fixed2(coverage),
     threshold |-> <<"4", "0", ".", "0", "0">>]

\* strings.ToLower and the replacement of "_" by "-" on a directory name
BranchWord(component) ==
    CASE component = "Pkg"    -> "pkg"
      [] component = "my_pkg" -> "my-pkg"
      [] OTHER                -> component

\* the components of a directory joined with "-"
RECURSIVE Dashed(_)
Dashed(dir) ==
    IF Len(dir) <= 1 THEN [i \in 1..Len(dir) |-> BranchWord(dir[i])]
    ELSE <<BranchWord(Head(dir)), "-">> \o Dashed(Tail(dir))

createBranchName(filePath) ==
    IF filePath.dir = <<>> THEN <<"auto-tests-root">>
    ELSE <<"auto-tests-">> \o Dashed(filePath.dir)

\* the state of one CreateTestPR call: the remote, the arguments, the locals
\* and, once the call is over, its result
Call(R, originalFile, testFileName, testContent, branchName, coverage, fault, race) ==
    [R |-> R, originalFile |-> originalFile, testFileName |-> testFileName,
     testContent |-> testContent, branchName |-> branchName, coverage |-> coverage,
     fault |-> fault, race |-> race,
     mainSHA |-> NoCommit, found |-> FALSE, existingFile |-> NoBlob,
     over |-> FALSE, panicked |-> FALSE, err |-> "", cause |-> ""]

Returns(c, err, cause) == [c EXCEPT !.over = TRUE, !.err = err, !.cause = cause]

\* a nil *github.Response is dereferenced
Panic(c) == [c EXCEPT !.over = TRUE, !.panicked = TRUE]

\* client.Git.GetRef(ctx, owner, repo, "refs/heads/main")
ResolveMain(c) ==
    LET sent == [c EXCEPT !.R = Sent(c.R, RefRequest("GetRef", <<"main">>, NoCommit))]
    IN  IF Outcome("get main ref", c.fault) # "ok"
        THEN Returns(sent, "failed to get main branch ref", "")
        ELSE [sent EXCEPT !.mainSHA = c.R.main,
                          !.R = IF c.race = "main" THEN MainMoves(sent.R) ELSE sent.R]

\* a lookup that takes every branch for absent
LookupBranch_NeverFound(c) ==
    IF c.over THEN c
    ELSE [c EXCEPT !.R = Sent(c.R, RefRequest("GetRef", c.branchName, NoCommit)),
                   !.found = FALSE]

\* client.Git.GetRef(ctx, owner, repo, "refs/heads/"+branchName)
LookupBranch(c) ==
    LET sent == [c EXCEPT !.R = Sent(c.R, RefRequest("GetRef", c.branchName, NoCommit))]
        how  == Outcome("get branch ref", c.fault)
    IN  IF c.over THEN c
        ELSE IF how = "none" THEN Panic(sent)
        ELSE IF how = "error" THEN Returns(sent, "failed to check branch existence", "")
        ELSE [sent EXCEPT !.found = c.R.branches[c.branchName].exists]

\* the branch skipped over instead of deleted
DeleteExisting_Kept(c) == c

\* client.Git.DeleteRef(ctx, owner, repo, "refs/heads/"+branchName), when the
\* lookup found the branch
DeleteExisting(c) ==
    LET sent == [c EXCEPT !.R = Sent(c.R, RefRequest("DeleteRef", c.branchName, NoCommit))]
    IN  IF c.over \/ ~c.found THEN c
        ELSE IF Outcome("delete ref", c.fault) # "ok"
        THEN Returns(sent, "failed to delete existing branch", "")
        ELSE [sent EXCEPT !.R = DeleteRefServed(sent.R, c.branchName)]

\* client.Git.CreateRef with mainRef.Object.SHA; the remote refuses a ref that
\* exists
CreateBranch(c) ==
    LET raced == IF c.race = "branch" THEN OtherCreatesBranch(c.R, c.branchName) ELSE c.R
        sent  == [c EXCEPT !.R = Sent(raced, RefRequest("CreateRef", c.branchName, c.mainSHA))]
    IN  IF c.over THEN c
        ELSE IF Outcome("create ref", c.fault) # "ok" \/ raced.branches[c.branchName].exists
        THEN Returns(sent, "failed to create branch", "")
        ELSE [sent EXCEPT !.R = CreateRefServed(sent.R, c.branchName, c.mainSHA)]

\* the precondition of the update left out of the request
UpdateFile_NoSHA(c, encodedContent) ==
    FileRequest("UpdateFile", c.branchName, c.testFileName, NoBlob, Marshal(encodedContent))

\* the request of client.Repositories.UpdateFile
UpdateFile(c, encodedContent) ==
    FileRequest("UpdateFile", c.branchName, c.testFileName, c.existingFile,
                Marshal(encodedContent))

\* the file created with the request that updates
CreateFile_AsUpdate(c, encodedContent) ==
    FileRequest("UpdateFile", c.branchName, c.testFileName, MainBlob, Marshal(encodedContent))

\* the request of client.Repositories.CreateFile
CreateFile(c, encodedContent) ==
    FileRequest("CreateFile", c.branchName, c.testFileName, NoBlob, Marshal(encodedContent))

\* the contents API on a PUT: the file must be at the version the request
\* names, or absent when it names none
PutAccepted(R, req) == FileAt(R, R.branches[req.ref].sha, req.path) = req.fileSHA

\* createOrUpdateFile, and CreateTestPR's wrapping of its error
createOrUpdateFile(c) ==
    LET encodedContent == EncodeToString(Plain(c.testContent))
        asked   == [c EXCEPT !.R = Sent(c.R, FileRequest("GetContents", c.branchName,
                                                         c.testFileName, NoBlob, Plain(<<>>)))]
        how     == Outcome("get contents", c.fault)
        file    == FileAt(c.R, c.R.branches[c.branchName].sha, c.testFileName)
        looked  == [asked EXCEPT
                       !.existingFile = file,
                       !.R = IF c.race = "file"
                             THEN OtherWritesFile(asked.R, c.branchName, c.testFileName)
                             ELSE asked.R]
        req     == IF file = NoBlob THEN CreateFile(looked, encodedContent)
                   ELSE UpdateFile(looked, encodedContent)
        put     == [looked EXCEPT !.R = Sent(looked.R, req)]
        refused == Outcome("put file", c.fault) # "ok" \/ ~PutAccepted(looked.R, req)
    IN  IF c.over THEN c
        ELSE IF how = "none" THEN Panic(asked)
        ELSE IF how = "error"
        THEN Returns(asked, "failed to create test file", "failed to check file existence")
        ELSE IF refused
        THEN Returns(put, "failed to create test file",
                     IF file = NoBlob THEN "failed to create file" ELSE "failed to update file")
        ELSE [put EXCEPT !.R = PutFileServed(put.R, c.branchName, c.testFileName,
                                             Blob("publisher", Decode(req.content)))]

\* client.PullRequests.Create; the remote refuses a second open pull request
\* from the same branch
OpenPullRequest(c) ==
    LET body == buildPRDescription(c.originalFile, c.coverage)
        sent == [c EXCEPT !.R = Sent(c.R, PRRequest(c.branchName, body))]
        dup  == \E i \in 1..Len(c.R.prs) :
                    c.R.prs[i].open /\ c.R.prs[i].head = c.branchName
    IN  IF c.over THEN c
        ELSE IF Outcome("create pull request", c.fault) # "ok" \/ dup
        THEN Returns(sent, "failed to create pull request", "")
        ELSE Returns([sent EXCEPT !.R = CreatePRServed(sent.R, c.branchName,
                                                       c.originalFile, body)],
                     "", "")

CreateTestPR(R, originalFile, testFileName, testContent, branchName, coverage, fault, race) ==
    OpenPullRequest(createOrUpdateFile(CreateBranch(DeleteExisting(LookupBranch(
        ResolveMain(Call(R, originalFile, testFileName, testContent, branchName,
                         coverage, fault, race)))))))

\* a conversion that reads the digits of the text and skips the rest
Atoi_SkipsOthers(str) ==
    [err |-> FALSE, n |-> DigitsValue(SelectSeq(str, IsDigit))]

\* strconv.Atoi: an optional sign and then digits only
Atoi(str) ==
    LET digits == IF str # <<>> /\ Head(str) \in {"+", "-"} THEN Tail(str) ELSE str
    IN  IF digits = <<>> \/ \E i \in 1..Len(digits) : ~IsDigit(digits[i])
        THEN [err |-> TRUE, n |-> 0]
        ELSE [err |-> FALSE,
              n |-> IF Head(str) = "-" THEN 0 - DigitsValue(digits) ELSE DigitsValue(digits)]

\* the request of client.Issues.CreateComment
CommentRequest(prNum, message) ==
    [op |-> "CreateComment", number |-> prNum, message |-> message]

\* CommentOnPR: the remote afterwards and the error returned
CommentOnPR(R, number, message, fault) ==
    LET prNum == Atoi(number)
        sent  == Sent(R, CommentRequest(prNum.n, message))
    IN  IF number = <<>> THEN [R |-> R, err |-> ""]
        ELSE IF prNum.err THEN [R |-> R, err |-> "invalid PR number"]
        ELSE IF Outcome("comment", fault) # "ok" \/ prNum.n \notin R.issues
        THEN [R |-> sent, err |-> "failed to create comment"]
        ELSE [R |-> [sent EXCEPT !.comments = Append(@, CommentRequest(prNum.n, message))],
              err |-> ""]

\* what is kept of a CreateTestPR call on remote R0 that ended in state c
Summary(R0, c) ==
    [called |-> TRUE, branchName |-> c.branchName, testFileName |-> c.testFileName,
     before |-> R0.branches[c.branchName], onMain |-> c.testFileName \in R0.onMain,
     mainBefore |-> R0.main, from |-> Len(R0.log),
     fault |-> c.fault, race |-> c.race, mainSHA |-> c.mainSHA,
     err |-> c.err, cause |-> c.cause, panicked |-> c.panicked]

NoFault == [at |-> "never", kind |-> "ok"]

NoCall ==
    [called |-> FALSE, branchName |-> <<>>, testFileName |-> Blank,
     before |-> NoBranch, onMain |-> FALSE, mainBefore |-> NoCommit, from |-> 0,
     fault |-> NoFault, race |-> "none", mainSHA |-> NoCommit,
     err |-> "", cause |-> "", panicked |-> FALSE]

NoPosted == [called |-> FALSE, from |-> 0, fault |-> NoFault, err |-> ""]

\* the branch names of the changed files
BranchNames == {createBranchName(f) : f \in ChangedPaths}

\* the pull request the workflow runs for
Issues == {12}

Remote(main, onMain, branches, prs) ==
    [main |-> main, onMain |-> onMain, branches |-> branches, prs |-> prs,
     issues |-> Issues, comments |-> <<>>, log |-> <<>>,
     call |-> NoCall, posted |-> NoPosted]

NoRemote == Remote(Commit(1, <<>>), {}, [b \in BranchNames |-> NoBranch], <<>>)

\* the calls that may go wrong and how
Steps ==
    {"get main ref", "get branch ref", "delete ref", "create ref", "get contents",
     "put file", "create pull request"}

Faults == {NoFault} \cup [at : Steps, kind : {"error", "none"}]

CommentFaults == {NoFault} \cup [at : {"comment"}, kind : {"error", "none"}]

Races == {"none", "main", "branch", "file"}

\* the pieces the generated text is made of
PackageLine == <<"package", " ", "calc", "\n">>

ImportLine == <<"import", " ", TestingImport, "\n">>

CodeLine == <<"func", " ", "TestAdd", "\n">>

CommentLine == <<"//", " ", "package", " ", "calc", "\n">>

FenceOpen == <<Fence, "go", "\n">>

FenceClose == <<Fence, "\n">>

Pieces == {PackageLine, ImportLine, CodeLine, CommentLine, FenceOpen, FenceClose}

\* the texts a generation call may return
GeneratedTexts == {Concat(ps) : ps \in SeqsUpTo(Pieces, MaxParts)}

\* the package names extractPackageInfo may find
PackageNames == {<<>>, <<"calc">>}

Parts == {TextPart(PackageLine), TextPart(CodeLine), BlobPart}

Candidates == {Candidate(ps) : ps \in SeqsUpTo(Parts, MaxSegments)} \cup {NilContent}

\* the candidates that may follow the first one
LaterCandidates == {NilContent, Candidate(<<TextPart(CodeLine)>>), Candidate(<<TextPart(ImportLine)>>)}

Answers ==
    {GenError, Answer(<<>>)}
        \cup {Answer(<<c>>) : c \in Candidates}
        \cup {Answer(<<c, d>>) : c \in Candidates, d \in LaterCandidates}

\* the answers main is followed through
DriverAnswers ==
    {GenError, Answer(<<>>), Answer(<<NilContent>>), Answer(<<Candidate(<<TextPart(CodeLine)>>)>>)}

\* the package clauses of the original file
PackageClauses == {<<"package", " ", "calc", "\n">>, <<"package", "\t", "calc", "\n">>}

\* the text os.ReadFile returns for a source file
Content(source) ==
    IF ~source.parses THEN <<>>
    ELSE LET lines == SplitLines(source.items)
         IN  source.clause \o Concat([i \in 1..Len(lines) |-> <<lines[i].text, "\n">>])

\* ----------------------------------------------------------- the driver

\* the facts about a runner run that do not depend on how its output is parsed
HasMarkerLine(lines) == \E i \in 1..Len(lines) : lines[i].kind = "no-test-files"

FirstCoverage(lines) ==
    LET at == {i \in 1..Len(lines) : lines[i].kind = "coverage"}
    IN  IF at = {} THEN NoCoverage
        ELSE lines[CHOOSE i \in at : \A j \in at : i <= j].tenths

NoProbe ==
    [called |-> FALSE, entry |-> 0, file |-> Blank, ran |-> FALSE, ranIn |-> <<>>, exitOk |-> FALSE,
     wrote |-> FALSE, marker |-> FALSE, firstCov |-> NoCoverage,
     needsTests |-> FALSE, coverage |-> Zero, err |-> ""]

\* the record of one AnalyzeFile call: the runner's behaviour is recorded
\* only when the runner was invoked
Probed(f, run, r) ==
    [called |-> TRUE, entry |-> idx, file |-> f, ran |-> r.ran, ranIn |-> r.ranIn,
     exitOk |-> r.ran /\ run.exitOk, wrote |-> r.ran /\ run.wrote,
     marker |-> r.ran /\ HasMarkerLine(run.lines),
     firstCov |-> IF r.ran THEN FirstCoverage(run.lines) ELSE NoCoverage,
     needsTests |-> r.needsTests, coverage |-> r.coverage, err |-> r.err]

\* what main keeps of the call: the returned triple; of the runner only
\* whether it ran, how it exited and whether it reported "no test files"
Verdict(f, run, r) ==
    [Probed(f, run, r) EXCEPT !.ranIn = <<>>, !.wrote = FALSE, !.firstCov = NoCoverage]

\* the runner runs main is followed through
DriverRuns ==
    {run \in RunnerRuns :
        /\ Len(run.lines) <= 1
        /\ run.wrote = run.exitOk
        /\ \A i \in 1..Len(run.lines) :
               run.lines[i].kind = "coverage" => run.lines[i].tenths \in {399, 400}}

NoFunctions == [err |-> "", list |-> <<>>]

Entries == ChangedPaths \cup {Blank}

file == changed[idx]

\* a loop that takes up the same entry again
NextFile_SameEntry == idx' = idx /\ pc' = "analyze"

\* the loop moves on to the next entry
NextFile == idx' = idx + 1 /\ pc' = "analyze"

Ran(stage) == stages' = [stages EXCEPT ![idx] = @ \cup {stage}]

\* the message of a comment: what it reports and the file it names
Message(kind) == [kind |-> kind, file |-> file]

\* prCreator.CommentOnPR(ctx, config.PRNumber, ...) as main calls it
Comment(kind) ==
    comments' = Append(comments, [entry |-> idx, kind |-> kind, file |-> file,
                                  number |-> prNumber])

\* the remote after the comment main posts when a stage returned an error;
\* main drops the error CommentOnPR returns
Commented(R, kind) ==
    LET posted == CommentOnPR(R, prNumber, Message(kind), NoFault)
    IN  [posted.R EXCEPT !.posted = [called |-> TRUE, from |-> Len(R.log),
                                     fault |-> NoFault, err |-> posted.err]]

\* a call main makes that is no request to the remote
NoRequest == [op |-> "none"]

Op(name) == [op |-> name, req |-> NoRequest]

\* log.Printf / log.Println of main: the line it writes
Log(line) == [op |-> "log", req |-> [op |-> "log", line |-> line]]

\* the requests that took remote R0 to R1, as calls
Requested(R0, R1) ==
    [i \in 1..(Len(R1.log) - Len(R0.log)) |-> [op |-> "request", req |-> R1.log[Len(R0.log) + i]]]

\* main called ops, in this order, for the current entry
Called(ops) ==
    calls' = calls \o [i \in 1..Len(ops) |-> [entry |-> idx, op |-> ops[i].op, req |-> ops[i].req]]

\* a main that returns after reporting the error of a stage
Report_Returns(kind, ops) ==
    /\ Comment(kind)
    /\ remote' = Commented(remote, kind)
    /\ Called(ops \o <<Op("CommentOnPR")>> \o Requested(remote, Commented(remote, kind)))
    /\ pc' = "done" /\ UNCHANGED idx

\* log the error of a stage that made the calls ops, comment on the review
\* request, continue
Report(kind, ops) ==
    /\ Comment(kind)
    /\ remote' = Commented(remote, kind)
    /\ Called(ops \o <<Op("CommentOnPR")>> \o Requested(remote, Commented(remote, kind)))
    /\ NextFile

InLoop(at) == pc = at /\ idx <= Len(changed)

\* main without its check of needsTests
AnalyzeOutcome_NeverSkips(r) == IF r.err # "" THEN "report" ELSE "continue"

\* main without its check of the error AnalyzeFile returned
AnalyzeOutcome_ErrIgnored(r) == IF ~r.needsTests THEN "skip" ELSE "continue"

\* what main does with the triple AnalyzeFile returned
AnalyzeOutcome(r) ==
    IF r.err # "" THEN "report"
    ELSE IF ~r.needsTests THEN "skip"
    ELSE "continue"

\* an entry that is empty after strings.TrimSpace
SkipBlank ==
    /\ InLoop("analyze") /\ file = Blank
    /\ NextFile
    /\ UNCHANGED <<calls, config, calc, fact, prNumber, gen, remote, build, cwd, cwd0, threshold, files, covOut, probe, changed,
                   stages, comments, src, functions>>

\* what main logs and calls up to the return of AnalyzeFile
AnalyzeCalls(r) ==
    <<Log("Processing file"), Op("AnalyzeFile")>> \o (IF r.ran THEN <<Op("go test")>> ELSE <<>>)

\* main after AnalyzeFile returned r, the runner having done run
AfterAnalyzeFile(run, r) ==
    /\ cwd' = r.cwd
    /\ covOut' = r.covOut
    /\ probe' = Verdict(file, run, r)
    /\ Ran("analyze")
    /\ CASE AnalyzeOutcome(r) = "report" ->
                Report("failed to analyze coverage",
                       AnalyzeCalls(r) \o <<Log("Error analyzing coverage")>>)
         [] AnalyzeOutcome(r) = "skip" ->
                /\ Called(AnalyzeCalls(r) \o <<Log("sufficient coverage, skipping")>>)
                /\ UNCHANGED <<comments, remote>> /\ NextFile
         [] OTHER ->
                /\ Called(AnalyzeCalls(r) \o <<Log("needs tests")>>)
                /\ UNCHANGED <<comments, remote, idx>> /\ pc' = "extract"

Analyze ==
    /\ InLoop("analyze") /\ file # Blank
    /\ \E run \in DriverRuns :
         AfterAnalyzeFile(run, CallAnalyzeFile(build, cwd, files, covOut, file, threshold, run))
    /\ UNCHANGED <<config, calc, fact, prNumber, gen, build, cwd0, threshold, files, changed, src, functions>>

\* main after ExtractModifiedFunctions returned r for the text source
AfterExtracted(source, r) ==
    /\ src' = source
    /\ functions' = r
    /\ Ran("extract")
    /\ IF r.err # ""
       THEN Report("failed to extract functions",
                   <<Op("ExtractModifiedFunctions"), Log("Error extracting functions")>>)
       ELSE IF Len(r.list) = 0
       THEN /\ Called(<<Op("ExtractModifiedFunctions"), Log("No functions found")>>)
            /\ UNCHANGED <<comments, remote>> /\ NextFile
       ELSE /\ Called(<<Op("ExtractModifiedFunctions")>>)
            /\ UNCHANGED <<comments, remote, idx>> /\ pc' = "generate"

\* ExtractModifiedFunctions on the text the file has
AfterExtract(source) == AfterExtracted(source, ExtractModifiedFunctions(source))

Extract ==
    /\ InLoop("extract")
    /\ AfterExtract(SourceAt(files, AbsFile(cwd, IF build = "resolved"
                                                  THEN resolveFilePath(cwd, file)
                                                  ELSE file)))
    /\ UNCHANGED <<config, calc, fact, prNumber, gen, build, cwd, cwd0, threshold, files, covOut, probe, changed>>

\* what main calls up to the return of GenerateTests
GenerateCalls(r) ==
    <<Op("GenerateTests")>> \o (IF r.gen.invoked THEN <<Op("GenerateContent")>> ELSE <<>>)

\* main after GenerateTests returned r
AfterGenerateTests(r) ==
    /\ cwd' = r.cwd
    /\ files' = r.files
    /\ gen' = r.gen
    /\ Ran(IF r.gen.validated THEN "validate" ELSE "generate")
    /\ IF r.gen.panicked
       THEN Called(GenerateCalls(r)) /\ UNCHANGED <<comments, remote, idx>> /\ pc' = "crashed"
       ELSE IF r.gen.err # ""
       THEN Report("failed to generate tests", GenerateCalls(r) \o <<Log("Error generating tests")>>)
       ELSE Called(GenerateCalls(r)) /\ UNCHANGED <<comments, remote, idx>> /\ pc' = "publish"

Generate ==
    /\ InLoop("generate")
    /\ \E resp \in DriverAnswers, writable \in BOOLEAN :
         AfterGenerateTests(GenerateTests(cwd, files, file, functions.list, Content(src), resp,
                                          writable))
    /\ UNCHANGED <<config, calc, fact, prNumber, build, cwd0, threshold, covOut, probe, changed, src, functions>>

\* CreateTestPR and the comment that follows it, as main calls them
Published(fault, race, cfault) ==
    LET c      == CreateTestPR(remote, file, TestFileOf(file), gen.testContent,
                               createBranchName(file), probe.coverage, fault, race)
        kind   == IF c.err # "" THEN "failed to create PR" ELSE "generated unit tests"
        posted == CommentOnPR(c.R, prNumber, Message(kind), cfault)
        call   == Summary(remote, c)
        made   == [called |-> TRUE, from |-> Len(c.R.log), fault |-> cfault, err |-> posted.err]
    IN  [panicked |-> c.panicked, kind |-> kind, sent |-> Len(c.R.log) - Len(remote.log),
         R |-> IF c.panicked THEN [c.R EXCEPT !.call = call]
               ELSE [posted.R EXCEPT !.call = call, !.posted = made]]

\* the faults main is followed through
DriverFaults ==
    {NoFault, [at |-> "create pull request", kind |-> "error"],
     [at |-> "get branch ref", kind |-> "none"]}

\* what main calls and logs from CreateTestPR on, r being what Published
\* returned and sent the requests it made
PublishCalls(r, sent) ==
    <<Op("CreateTestPR")>> \o SubSeq(sent, 1, r.sent)
        \o (IF r.panicked THEN <<>>
            ELSE <<Log(IF r.kind = "failed to create PR"
                       THEN "Error creating PR"
                       ELSE "Successfully created test PR"),
                   Op("CommentOnPR")>> \o SubSeq(sent, r.sent + 1, Len(sent)))

\* main after Published returned r
AfterPublished(r) ==
    /\ Ran("publish")
    /\ remote' = r.R
    /\ Called(PublishCalls(r, Requested(remote, r.R)))
    /\ IF r.panicked THEN UNCHANGED <<comments, idx>> /\ pc' = "crashed"
       ELSE Comment(r.kind) /\ NextFile

Publish ==
    /\ InLoop("publish")
    /\ \E fault \in DriverFaults : AfterPublished(Published(fault, "none", NoFault))
    /\ UNCHANGED <<config, calc, fact, prNumber, gen, build, cwd, cwd0, threshold, files, covOut, probe, changed,
                   src, functions>>

\* log.Println("Test generation process completed")
Finish ==
    /\ pc = "analyze" /\ idx > Len(changed)
    /\ pc' = "done"
    /\ Called(<<Log("Test generation process completed")>>)
    /\ UNCHANGED <<config, calc, fact, prNumber, gen, remote, build, cwd, cwd0, threshold, files, covOut, probe, changed, idx,
                   stages, comments, src, functions>>

Init ==
    /\ build \in Builds
    /\ cwd0 \in StartDirs
    /\ cwd = cwd0
    /\ threshold = DefaultThreshold
    /\ files = ChangedPaths \cup {TestFileOf(FactorialGo)}
    /\ covOut = {}
    /\ probe = NoProbe
    /\ changed \in SeqsUpTo(Entries, MaxFiles)
    /\ idx = 1
    /\ pc = "analyze"
    /\ stages = [i \in 1..Len(changed) |-> {}]
    /\ comments = <<>>
    /\ src = Missing
    /\ functions = NoFunctions
    /\ gen = NoGen
    /\ remote = [NoRemote EXCEPT !.onMain = {TestFileOf(FactorialGo)}]
    /\ prNumber = <<"1", "2">>
    /\ calls = <<>>
    /\ config = AllFlags
    /\ calc = NoCalculator
    /\ fact = NoFactorial

Next == SkipBlank \/ Analyze \/ Extract \/ Generate \/ Publish \/ Finish

Spec == Init /\ [][Next]_vars

\* ------------------------------------------- one call of AnalyzeFile

InitProbe ==
    /\ build \in Builds
    /\ cwd0 \in StartDirs
    /\ cwd = cwd0
    /\ threshold \in Thresholds
    /\ files \in FileSystems
    /\ covOut = {}
    /\ probe = NoProbe
    /\ changed \in {<<f>> : f \in ChangedPaths}
    /\ idx = 1
    /\ pc = "call"
    /\ stages = <<{}>>
    /\ comments = <<>>
    /\ src = Missing
    /\ functions = NoFunctions
    /\ gen = NoGen
    /\ remote = NoRemote
    /\ prNumber = <<>>
    /\ calls = <<>>
    /\ config = AllFlags
    /\ calc = NoCalculator
    /\ fact = NoFactorial

Probe ==
    /\ pc = "call"
    /\ \E run \in RunnerRuns :
         LET r == CallAnalyzeFile(build, cwd, files, covOut, file, threshold, run)
         IN  /\ cwd' = r.cwd
             /\ covOut' = r.covOut
             /\ probe' = Probed(file, run, r)
    /\ pc' = "returned"
    /\ UNCHANGED <<calls, config, calc, fact, prNumber, gen, remote, build, cwd0, threshold, files, changed, idx, stages, comments,
                   src, functions>>

SpecProbe == InitProbe /\ [][Probe]_vars

\* ------------------------------ one call of ExtractModifiedFunctions

SourceFiles == {GoFile(items) : items \in SeqsUpTo(Item, MaxItems)} \cup {NotGo, Missing}

InitExtract ==
    /\ build = "resolved"
    /\ cwd0 = <<>>
    /\ cwd = cwd0
    /\ threshold = DefaultThreshold
    /\ files = ChangedPaths
    /\ covOut = {}
    /\ probe = NoProbe
    /\ changed = <<FactorialGo>>
    /\ idx = 1
    /\ pc = "call"
    /\ stages = <<{}>>
    /\ comments = <<>>
    /\ src \in SourceFiles
    /\ functions = NoFunctions
    /\ gen = NoGen
    /\ remote = NoRemote
    /\ prNumber = <<>>
    /\ calls = <<>>
    /\ config = AllFlags
    /\ calc = NoCalculator
    /\ fact = NoFactorial

ExtractCall ==
    /\ pc = "call"
    /\ functions' = ExtractModifiedFunctions(src)
    /\ pc' = "returned"
    /\ UNCHANGED <<calls, config, calc, fact, prNumber, gen, remote, build, cwd, cwd0, threshold, files, covOut, probe, changed, idx,
                   stages, comments, src>>

SpecExtract == InitExtract /\ [][ExtractCall]_vars

\* ------------------------------------- one call of cleanupGeneratedCode

InitCleanup ==
    /\ build = "resolved"
    /\ cwd0 = <<>>
    /\ cwd = cwd0
    /\ threshold = DefaultThreshold
    /\ files = ChangedPaths
    /\ covOut = {}
    /\ probe = NoProbe
    /\ changed = <<FactorialGo>>
    /\ idx = 1
    /\ pc = "call"
    /\ stages = <<{}>>
    /\ comments = <<>>
    /\ src = Missing
    /\ functions = NoFunctions
    /\ \E text \in GeneratedTexts, name \in PackageNames :
           gen = [NoGen EXCEPT !.generatedCode = text, !.packageName = name]
    /\ remote = NoRemote
    /\ prNumber = <<>>
    /\ calls = <<>>
    /\ config = AllFlags
    /\ calc = NoCalculator
    /\ fact = NoFactorial

CleanupCall ==
    /\ pc = "call"
    /\ gen' = [gen EXCEPT !.called = TRUE,
                          !.testContent = cleanupGeneratedCode(gen.generatedCode,
                                                               gen.packageName)]
    /\ pc' = "returned"
    /\ UNCHANGED <<calls, config, calc, fact, prNumber, remote, build, cwd, cwd0, threshold, files, covOut, probe, changed, idx,
                   stages, comments, src, functions>>

SpecCleanup == InitCleanup /\ [][CleanupCall]_vars

\* -------------------------------------------- one call of GenerateTests

InitGenerate ==
    /\ build = "resolved"
    /\ cwd0 \in StartDirs
    /\ cwd = cwd0
    /\ threshold = DefaultThreshold
    /\ files \in {ChangedPaths, ChangedPaths \ {FactorialGo}}
    /\ covOut = {}
    /\ probe = NoProbe
    /\ changed = <<FactorialGo>>
    /\ idx = 1
    /\ pc = "call"
    /\ stages = <<{}>>
    /\ comments = <<>>
    /\ \E clause \in PackageClauses :
           src = IF FactorialGo \in files
                 THEN [GoFile(<<Func("Add", 3)>>) EXCEPT !.clause = clause]
                 ELSE Missing
    /\ functions = NoFunctions
    /\ gen = NoGen
    /\ remote = NoRemote
    /\ prNumber = <<>>
    /\ calls = <<>>
    /\ config = AllFlags
    /\ calc = NoCalculator
    /\ fact = NoFactorial

GenerateCall ==
    /\ pc = "call"
    /\ \E resp \in Answers, writable \in BOOLEAN :
         LET r == GenerateTests(cwd, files, file, ExtractModifiedFunctions(src).list,
                                Content(src), resp, writable)
         IN  /\ cwd' = r.cwd
             /\ files' = r.files
             /\ gen' = r.gen
    /\ pc' = "returned"
    /\ UNCHANGED <<calls, config, calc, fact, prNumber, remote, build, cwd0, threshold, covOut, probe, changed, idx, stages,
                   comments, src, functions>>

SpecGenerate == InitGenerate /\ [][GenerateCall]_vars

\* ------------------------- the publish step of main for one changed file

\* a branch left by an earlier run, made from an older head of main
Stale(writes) == [exists |-> TRUE, sha |-> Commit(0, writes), stale |-> TRUE]

EarlierBlob == Blob("earlier", Plain(<<>>))

Leftovers(f) ==
    {NoBranch, Stale(<<>>), Stale(<<[path |-> TestFileOf(f), blob |-> EarlierBlob]>>)}

EarlierPR(f) ==
    [head |-> createBranchName(f), base |-> "main", title |-> f,
     body |-> buildPRDescription(f, Zero), open |-> TRUE]

\* the remote repositories a publish step may find
StartRemotes(f) ==
    {Remote(Commit(1, <<>>), onMain,
            [b \in BranchNames |-> IF b = createBranchName(f) THEN br ELSE NoBranch], prs) :
        onMain \in {{}, {TestFileOf(f)}},
        br \in Leftovers(f),
        prs \in {<<>>, <<EarlierPR(f)>>}}

\* the values of the pr-number flag
PRNumbers ==
    {<<>>, <<"1", "2">>, <<"+", "1", "2">>, <<"-", "3">>, <<"7">>, <<"1", "2", "a">>, <<"a">>}

InitPublish ==
    /\ build = "resolved"
    /\ cwd0 = <<>>
    /\ cwd = cwd0
    /\ threshold \in Thresholds \ {Zero}
    /\ files = ChangedPaths
    /\ covOut = {}
    /\ \E c \in CoverageTenths :
           /\ Less(Dec(c, 10), threshold)
           /\ probe = [NoProbe EXCEPT !.called = TRUE, !.entry = 1, !.file = FactorialGo,
                                      !.needsTests = TRUE, !.coverage = Dec(c, 10)]
    /\ changed = <<FactorialGo>>
    /\ idx = 1
    /\ pc = "call"
    /\ stages = <<{}>>
    /\ comments = <<>>
    /\ src = Missing
    /\ functions = NoFunctions
    /\ gen = [NoGen EXCEPT !.called = TRUE,
                           !.testContent = cleanupGeneratedCode(CodeLine, <<"calc">>)]
    /\ remote \in {R \in StartRemotes(FactorialGo) :
                      R.prs # <<>> => R.branches[createBranchName(FactorialGo)].exists}
    /\ prNumber \in PRNumbers
    /\ calls = <<>>
    /\ config = AllFlags
    /\ calc = NoCalculator
    /\ fact = NoFactorial

PublishCall ==
    /\ pc = "call"
    /\ \E fault \in Faults, race \in Races :
         LET c == CreateTestPR(remote, file, TestFileOf(file), gen.testContent,
                               createBranchName(file), probe.coverage, fault, race)
         IN  /\ remote' = [c.R EXCEPT !.call = Summary(remote, c)]
             /\ pc' = IF c.panicked THEN "crashed" ELSE "published"
    /\ UNCHANGED <<calls, config, calc, fact, prNumber, gen, build, cwd, cwd0, threshold, files, covOut, probe, changed,
                   idx, stages, comments, src, functions>>

CommentCall ==
    /\ pc = "published"
    /\ \E cfault \in CommentFaults :
         LET kind   == IF remote.call.err # "" THEN "failed to create PR"
                       ELSE "generated unit tests"
             posted == CommentOnPR(remote, prNumber, Message(kind), cfault)
         IN  remote' = [posted.R EXCEPT !.posted = [called |-> TRUE, from |-> Len(remote.log),
                                                    fault |-> cfault, err |-> posted.err]]
    /\ pc' = "returned"
    /\ UNCHANGED <<calls, config, calc, fact, prNumber, gen, build, cwd, cwd0, threshold, files, covOut, probe, changed,
                   idx, stages, comments, src, functions>>

SpecPublish == InitPublish /\ [][PublishCall \/ CommentCall]_vars

\* ------------------------------------------------- the start of the process

\* the command lines: each required flag given or left at its default ""
CommandLines ==
    [RepoOwner : {"", "acme"}, RepoName : {"", "demo"}, GithubToken : {"", "ghp"},
     GeminiAPIKey : {"", "key"}, exit : {"running"}]

\* parseFlags: log.Fatal when a required flag is empty
parseFlags(c) ==
    IF c.RepoOwner = "" \/ c.RepoName = "" \/ c.GithubToken = "" \/ c.GeminiAPIKey = ""
    THEN [c EXCEPT !.exit = "fatal"]
    ELSE c

\* changed = <<>> stands for an empty changed-files flag, which main never splits
InitStart ==
    /\ build = "resolved"
    /\ cwd0 = <<>>
    /\ cwd = cwd0
    /\ threshold \in Thresholds
    /\ files = ChangedPaths
    /\ covOut = {}
    /\ probe = NoProbe
    /\ changed \in SeqsUpTo(Entries, MaxFiles)
    /\ idx = 1
    /\ pc = "start"
    /\ stages = [i \in 1..Len(changed) |-> {}]
    /\ comments = <<>>
    /\ src = Missing
    /\ functions = NoFunctions
    /\ gen = NoGen
    /\ remote = NoRemote
    /\ prNumber \in PRNumbers
    /\ calls = <<>>
    /\ config \in CommandLines
    /\ calc = NoCalculator
    /\ fact = NoFactorial

\* config := parseFlags()
ParseFlagsCall ==
    /\ pc = "start"
    /\ config' = parseFlags(config)
    /\ pc' = IF parseFlags(config).exit = "fatal" THEN "exited" ELSE "parsed"
    /\ UNCHANGED <<calls, calc, fact, prNumber, gen, remote, build, cwd, cwd0, threshold, files,
                   covOut, probe, changed, idx, stages, comments, src, functions>>

\* main after parseFlags: return on an empty list, else set up the services
\* and enter the loop
Start ==
    /\ pc = "parsed"
    /\ IF changed = <<>>
       THEN config' = [config EXCEPT !.exit = "clean"] /\ pc' = "exited"
       ELSE UNCHANGED config /\ pc' = "analyze"
    /\ UNCHANGED <<calls, calc, fact, prNumber, gen, remote, build, cwd, cwd0, threshold, files,
                   covOut, probe, changed, idx, stages, comments, src, functions>>

SpecStart == InitStart /\ [][ParseFlagsCall \/ Start]_vars

\* ------------------------------------------ one call of extractPackageInfo

\* a line of a source file: what it is in the file, its text, and for an
\* import the path it imports
SourceLine(kind, text, entry) == [kind |-> kind, text |-> text, entry |-> entry]

ClauseLine == SourceLine("clause", <<"package", " ", "calc">>, <<>>)

\* the lines between "import (" and ")"
SpecLines ==
    {SourceLine("spec", <<"\t", "\"fmt\"">>, <<"\"fmt\"">>),
     SourceLine("comment", <<"\t", "//", " ", "formatting">>, <<>>),
     SourceLine("blank", <<>>, <<>>)}

ImportBlock(specs) ==
    <<SourceLine("open", <<"import", " ", "(">>, <<>>)>> \o specs
        \o <<SourceLine("close", <<")">>, <<>>)>>

SingleImport == <<SourceLine("single", <<"import", " ", "\"os\"">>, <<"\"os\"">>)>>

\* the import declarations of a file
ImportSections ==
    LET blocks == {ImportBlock(specs) : specs \in SeqsUpTo(SpecLines, MaxSpecs)}
    IN  {<<>>, SingleImport} \cup blocks
            \cup {b \o SingleImport : b \in blocks} \cup {SingleImport \o b : b \in blocks}

\* a comment that spans several lines, one of them line
BlockComment(line) ==
    <<SourceLine("comment", <<"/*">>, <<>>), SourceLine("comment", line, <<>>),
      SourceLine("comment", <<"*/">>, <<>>)>>

\* what follows the imports
Bodies ==
    {<<>>,
     <<SourceLine("code", <<"func", " ", "Add">>, <<>>)>>,
     BlockComment(<<"package", " ", "main", " ", "is", " ", "the", " ", "old", " ", "name">>),
     BlockComment(<<"import", " ", "\"os\"", " ", "was", " ", "dropped">>)}

SourceTexts == {<<ClauseLine>> \o imports \o body : imports \in ImportSections, body \in Bodies}

\* the text of the file: its lines, each ended by a newline
TextOfLines(lines) == Concat([i \in 1..Len(lines) |-> lines[i].text \o <<"\n">>])

InitPackageInfo ==
    /\ build = "resolved"
    /\ cwd0 = <<>>
    /\ cwd = cwd0
    /\ threshold = DefaultThreshold
    /\ files = ChangedPaths
    /\ covOut = {}
    /\ probe = NoProbe
    /\ changed = <<FactorialGo>>
    /\ idx = 1
    /\ pc = "call"
    /\ stages = <<{}>>
    /\ comments = <<>>
    /\ src = Missing
    /\ functions = NoFunctions
    /\ \E lines \in SourceTexts :
           gen = [NoGen EXCEPT !.lines = lines, !.content = TextOfLines(lines)]
    /\ remote = NoRemote
    /\ prNumber = <<>>
    /\ calls = <<>>
    /\ config = AllFlags
    /\ calc = NoCalculator
    /\ fact = NoFactorial

PackageInfoCall ==
    /\ pc = "call"
    /\ gen' = [gen EXCEPT !.called = TRUE,
                          !.packageName = extractPackageInfo(gen.content).packageName,
                          !.imports = extractPackageInfo(gen.content).imports]
    /\ pc' = "returned"
    /\ UNCHANGED <<calls, config, calc, fact, prNumber, remote, build, cwd, cwd0, threshold, files,
                   covOut, probe, changed, idx, stages, comments, src, functions>>

SpecPackageInfo == InitPackageInfo /\ [][PackageInfoCall]_vars

\* ------------------------------------------------------------ Calculator

\* The repository has two Calculators: package calculator works on int, the
\* one of package main on float64 and has Subtract and ClearHistory as well.
\* Numbers are fractions num/den in lowest terms, den > 0; those of package
\* calculator have den = 1.
RECURSIVE Gcd(_, _)
Gcd(a, b) == IF b = 0 THEN a ELSE Gcd(b, a % b)

Abs0(n) == IF n < 0 THEN 0 - n ELSE n

Rat(n, d) ==
    LET g == Gcd(Abs0(n), Abs0(d))
        k == IF d < 0 THEN 0 - 1 ELSE 1
    IN  [num |-> (k * n) \div g, den |-> (k * d) \div g]

Whole(n) == Rat(n, 1)

\* a / b on int: the quotient truncated toward zero
Quo(a, b) ==
    LET q == Abs0(a.num) \div Abs0(b.num)
    IN  Whole(IF (a.num < 0) = (b.num < 0) THEN q ELSE 0 - q)

\* fmt's %d
FormatD(x) == (IF x.num < 0 THEN <<"-">> ELSE <<>>) \o ToDigits(Abs0(x.num))

\* fmt's %.2f: rounded to hundredths
FormatF2(x) ==
    LET hundredths == (2 * Abs0(x.num) * 100 + x.den) \div (2 * x.den)
        frac       == hundredths % 100
    IN  (IF x.num < 0 THEN <<"-">> ELSE <<>>) \o ToDigits(hundredths \div 100)
            \o <<".", Digits[(frac \div 10) + 1], Digits[(frac % 10) + 1]>>

\* fmt.Sprintf("%d + %d = %d", a, b, result), and with %.2f in package main
Sprintf(pkg, sign, a, b, result) ==
    IF pkg = "calculator"
    THEN FormatD(a) \o <<" ", sign, " ">> \o FormatD(b) \o <<" ", "=", " ">> \o FormatD(result)
    ELSE FormatF2(a) \o <<" ", sign, " ">> \o FormatF2(b) \o <<" ", "=", " ">> \o FormatF2(result)

NewCalculator(pkg) == [made |-> TRUE, pkg |-> pkg, history |-> <<>>, log |-> <<>>]

\* a call on the Calculator and what it returned, kept with the history after it
Made(c, op, a, b, result, err, history) ==
    [c EXCEPT !.history = history,
              !.log = Append(@, [op |-> op, a |-> a, b |-> b, result |-> result, err |-> err,
                                 history |-> history])]

Add(c, a, b) ==
    LET result == Rat(a.num * b.den + b.num * a.den, a.den * b.den)
    IN  Made(c, "Add", a, b, result, "", Append(c.history, Sprintf(c.pkg, "+", a, b, result)))

Subtract(c, a, b) ==
    LET result == Rat(a.num * b.den - b.num * a.den, a.den * b.den)
    IN  Made(c, "Subtract", a, b, result, "", Append(c.history, Sprintf(c.pkg, "-", a, b, result)))

Multiply(c, a, b) ==
    LET result == Rat(a.num * b.num, a.den * b.den)
    IN  Made(c, "Multiply", a, b, result, "", Append(c.history, Sprintf(c.pkg, "*", a, b, result)))

\* a Divide that records the refused call as well
Divide_RecordsZero(c, a, b) ==
    Made(c, "Divide", a, b, Whole(0), IF b.num = 0 THEN "division by zero" ELSE "",
         Append(c.history, Sprintf(c.pkg, "/", a, b, Whole(0))))

Divide(c, a, b) ==
    LET result == IF c.pkg = "calculator" THEN Quo(a, b) ELSE Rat(a.num * b.den, a.den * b.num)
    IN  IF b.num = 0 THEN Made(c, "Divide", a, b, Whole(0), "division by zero", c.history)
        ELSE Made(c, "Divide", a, b, result, "",
                  Append(c.history, Sprintf(c.pkg, "/", a, b, result)))

\* GetHistory returns the slice itself
GetHistory(c) == Made(c, "GetHistory", Whole(0), Whole(0), Whole(0), "", c.history)

ClearHistory(c) == Made(c, "ClearHistory", Whole(0), Whole(0), Whole(0), "", <<>>)

\* the operands of the calls
Operands == {Whole(0 - 3), Whole(0), Whole(2)}

InitCalculator ==
    /\ build = "resolved"
    /\ cwd0 = <<>>
    /\ cwd = cwd0
    /\ threshold = DefaultThreshold
    /\ files = ChangedPaths
    /\ covOut = {}
    /\ probe = NoProbe
    /\ changed = <<CalculatorGo>>
    /\ idx = 1
    /\ pc = "call"
    /\ stages = <<{}>>
    /\ comments = <<>>
    /\ src = Missing
    /\ functions = NoFunctions
    /\ gen = NoGen
    /\ remote = NoRemote
    /\ prNumber = <<>>
    /\ calls = <<>>
    /\ config = AllFlags
    /\ calc \in {NewCalculator(pkg) : pkg \in {"calculator", "main"}}
    /\ fact = NoFactorial

\* the variables a call on the Calculator leaves alone
CalculatorOnly ==
    UNCHANGED <<calls, config, fact, prNumber, gen, remote, build, cwd, cwd0, threshold, files,
                covOut, probe, changed, idx, pc, stages, comments, src, functions>>

MayCall == pc = "call" /\ Len(calc.log) < MaxCalls

AddCall ==
    MayCall /\ (\E a, b \in Operands : calc' = Add(calc, a, b)) /\ CalculatorOnly

SubtractCall ==
    /\ MayCall /\ calc.pkg = "main"
    /\ \E a, b \in Operands : calc' = Subtract(calc, a, b)
    /\ CalculatorOnly

MultiplyCall ==
    MayCall /\ (\E a, b \in Operands : calc' = Multiply(calc, a, b)) /\ CalculatorOnly

DivideCall ==
    MayCall /\ (\E a, b \in Operands : calc' = Divide(calc, a, b)) /\ CalculatorOnly

GetHistoryCall == MayCall /\ calc' = GetHistory(calc) /\ CalculatorOnly

ClearHistoryCall ==
    MayCall /\ calc.pkg = "main" /\ calc' = ClearHistory(calc) /\ CalculatorOnly

SpecCalculator ==
    InitCalculator /\ [][AddCall \/ SubtractCall \/ MultiplyCall \/ DivideCall
                            \/ GetHistoryCall \/ ClearHistoryCall]_vars

\* ------------------------------------------------------------- Factorial

\* Go's int is 32 or 64 bits wide, as the target of the build has it, and
\* its multiplication wraps around.  An int is kept as its two's complement
\* bit pattern in limbs of 16 bits, the least significant first.
Limb == 65536

IntSizes == {32, 64}

RECURSIVE Word(_, _)
Word(bits, v) == IF bits = 0 THEN <<>> ELSE <<v>> \o Word(bits - 16, 0)

\* x * m on int, m >= 0: what does not fit the width is lost
RECURSIVE Times(_, _, _)
Times(x, m, carry) ==
    IF x = <<>> THEN <<>>
    ELSE LET p == Head(x) * m + carry
         IN  <<p % Limb>> \o Times(Tail(x), m, p \div Limb)

\* math.Factorial, a frame at a time: at "entry" the frame of argument k
\* starts, at "multiply" the frame of argument k + 1 has got the result of
\* its recursive call.
MathEntry(f) ==
    IF f.k < 0 THEN [f EXCEPT !.at = "panicked"]
    ELSE IF f.k = 0 \/ f.k = 1
         THEN [f EXCEPT !.result = Word(f.bits, 1),
                        !.at = IF f.k = f.n THEN "returned" ELSE "multiply"]
         ELSE [f EXCEPT !.k = f.k - 1]

MathMultiply(f) ==
    [f EXCEPT !.k = f.k + 1,
              !.result = Times(f.result, f.k + 1, 0),
              !.at = IF f.k + 1 = f.n THEN "returned" ELSE "multiply"]

\* factorial.Factorial: k is the loop's i
IterEntry(f) ==
    IF f.n < 0
    THEN [f EXCEPT !.result = Word(f.bits, 0), !.at = "returned",
                   !.err = "factorial is not defined for negative numbers"]
    ELSE [f EXCEPT !.result = Word(f.bits, 1), !.k = 2, !.at = "loop"]

IterLoop(f) ==
    IF f.k <= f.n
    THEN [f EXCEPT !.result = Times(f.result, f.k, 0), !.k = f.k + 1]
    ELSE [f EXCEPT !.at = "returned"]

\* the arguments of the calls
Arguments == (0 - 2)..20

InitFactorial ==
    /\ build = "resolved"
    /\ cwd0 = <<>>
    /\ cwd = cwd0
    /\ threshold = DefaultThreshold
    /\ files = ChangedPaths
    /\ covOut = {}
    /\ probe = NoProbe
    /\ changed = <<FactorialGo>>
    /\ idx = 1
    /\ pc = "call"
    /\ stages = <<{}>>
    /\ comments = <<>>
    /\ src = Missing
    /\ functions = NoFunctions
    /\ gen = NoGen
    /\ remote = NoRemote
    /\ prNumber = <<>>
    /\ calls = <<>>
    /\ config = AllFlags
    /\ calc = NoCalculator
    /\ \E pkg \in {"math", "factorial"}, bits \in IntSizes, n \in Arguments :
           fact = [called |-> TRUE, pkg |-> pkg, bits |-> bits, n |-> n, at |-> "entry",
                   k |-> n, result |-> Word(bits, 0), err |-> ""]

\* the variables a step of Factorial leaves alone
FactorialOnly ==
    UNCHANGED <<calls, config, calc, prNumber, gen, remote, build, cwd, cwd0, threshold, files,
                covOut, probe, changed, idx, pc, stages, comments, src, functions>>

MathEntryStep ==
    fact.pkg = "math" /\ fact.at = "entry" /\ fact' = MathEntry(fact) /\ FactorialOnly

MathMultiplyStep ==
    fact.pkg = "math" /\ fact.at = "multiply" /\ fact' = MathMultiply(fact) /\ FactorialOnly

IterEntryStep ==
    fact.pkg = "factorial" /\ fact.at = "entry" /\ fact' = IterEntry(fact) /\ FactorialOnly

IterLoopStep ==
    fact.pkg = "factorial" /\ fact.at = "loop" /\ fact' = IterLoop(fact) /\ FactorialOnly

FactorialStep == MathEntryStep \/ MathMultiplyStep \/ IterEntryStep \/ IterLoopStep

SpecFactorial == InitFactorial /\ [][FactorialStep]_vars

\* ------------------------------------- a run whose comments may not arrive

\* pr-number flags: a number that is no pull request of the repository, a
\* text that is no number
DriverPRNumbers == {<<"7">>, <<"a">>}

InitComments ==
    /\ build = "resolved"
    /\ cwd0 = <<>>
    /\ cwd = cwd0
    /\ threshold = DefaultThreshold
    /\ files = ChangedPaths \cup {TestFileOf(FactorialGo)}
    /\ covOut = {}
    /\ probe = NoProbe
    /\ changed \in SeqsUpTo(Entries, MaxFiles)
    /\ idx = 1
    /\ pc = "analyze"
    /\ stages = [i \in 1..Len(changed) |-> {}]
    /\ comments = <<>>
    /\ src = Missing
    /\ functions = NoFunctions
    /\ gen = NoGen
    /\ remote = [NoRemote EXCEPT !.onMain = {TestFileOf(FactorialGo)}]
    /\ prNumber \in DriverPRNumbers
    /\ calls = <<>>
    /\ config = AllFlags
    /\ calc = NoCalculator
    /\ fact = NoFactorial

SpecComments == InitComments /\ [][Next]_vars

\* =================================================================== claims

\* the test file next to a changed file: its trailing ".go" replaced by "_test.go"
AdjacentTestFile(f) ==
    [dir  |-> f.dir,
     base |-> f.base,
     exts |-> (IF f.exts # <<>> /\ f.exts[Len(f.exts)] = ".go"
               THEN SubSeq(f.exts, 1, Len(f.exts) - 1) ELSE f.exts) \o <<"_test", ".go">>]

\* the first percentage the runner printed, as a float64
Measured == [num |-> probe.firstCov, den |-> 10]

\* C1: a changed file without an adjacent test file gets needsTests=true,
\* coverage=0 and no error, for every threshold, and the runner is not invoked.
C1_NoTestFileNeedsTests ==
    (probe.called /\ AdjacentTestFile(probe.file) \notin files)
        => /\ probe.needsTests
           /\ probe.coverage = Zero
           /\ probe.err = ""
           /\ ~probe.ran

C1_Witness ==
    /\ probe.called
    /\ probe.file = FactorialGo
    /\ threshold = DefaultThreshold
    /\ AdjacentTestFile(probe.file) \notin files
    /\ probe.needsTests

\* C2: when the runner exits successfully and prints a percentage c, AnalyzeFile
\* returns coverage=c, no error and needsTests = (c < threshold).
C2_NeedsTestsIffBelowThreshold ==
    (probe.ran /\ probe.exitOk /\ probe.firstCov # NoCoverage)
        => /\ probe.err = ""
           /\ probe.coverage.num * Measured.den = Measured.num * probe.coverage.den
           /\ probe.needsTests = (Measured.num * threshold.den < threshold.num * Measured.den)

C2_Witness ==
    /\ probe.ran /\ probe.exitOk
    /\ probe.firstCov = 400
    /\ threshold = DefaultThreshold
    /\ ~probe.needsTests
    /\ probe.coverage = DefaultThreshold

\* the comments main made about entry i
CommentsOn(i) == SelectSeq(comments, LAMBDA c : c.entry = i)

\* the runner was invoked, failed, and did not report "no test files"
RunnerFailed == probe.ran /\ ~probe.exitOk /\ ~probe.marker

\* C3: when the runner fails without the no-tests marker, AnalyzeFile returns an
\* error and main reports it for the file and runs no extraction, generation or
\* publishing for it: the file is never taken as sufficiently covered.
C3_RunnerFailureReported ==
    RunnerFailed
        => /\ probe.err # ""
           /\ idx > probe.entry
           /\ stages[probe.entry] = {"analyze"}
           /\ CommentsOn(probe.entry)
                  = <<[entry |-> probe.entry, kind |-> "failed to analyze coverage",
                       file |-> changed[probe.entry], number |-> prNumber]>>

C3_Witness ==
    /\ RunnerFailed
    /\ pc = "done"
    /\ probe.entry < Len(changed)

\* C4 as stated: whenever the output carries the no-test-files marker, AnalyzeFile
\* returns needsTests=true, coverage=0 and no error, whatever the exit status
\* and the threshold.
C4_MarkerAlwaysNeedsTests ==
    (probe.ran /\ probe.marker)
        => probe.needsTests /\ probe.coverage = Zero /\ probe.err = ""

\* C4 as amended: the marker decides only when the runner failed; then the
\* result is needsTests=true, coverage=0, no error, whatever the threshold.
\* When the runner exited successfully the marker is not consulted: the result
\* is the first percentage printed (0 when there is none) compared with the
\* threshold.
C4_MarkerOnFailureNeedsTests ==
    /\ (probe.ran /\ probe.marker /\ ~probe.exitOk)
           => probe.needsTests /\ probe.coverage = Zero /\ probe.err = ""
    /\ (probe.ran /\ probe.marker /\ probe.exitOk)
           => LET c == IF probe.firstCov = NoCoverage THEN 0 ELSE probe.firstCov
              IN  /\ probe.err = ""
                  /\ probe.coverage.num * 10 = c * probe.coverage.den
                  /\ probe.needsTests = (c * threshold.den < threshold.num * 10)

C4_Witness ==
    /\ probe.ran /\ probe.marker /\ ~probe.exitOk
    /\ threshold = Zero
    /\ probe.needsTests

\* C5 as stated: a successful run that prints no percentage gives coverage=0 and
\* needsTests=true, for every threshold.
C5_NoPercentageAlwaysNeedsTests ==
    (probe.ran /\ probe.exitOk /\ probe.firstCov = NoCoverage)
        => probe.err = "" /\ probe.coverage = Zero /\ probe.needsTests

\* C5 as amended: a successful run that prints no percentage does not fail and
\* gives coverage=0; needsTests is (0 < threshold), so it is true for every
\* threshold above 0 and false for a threshold of 0 or less.
C5_NoPercentageIsZeroCoverage ==
    (probe.ran /\ probe.exitOk /\ probe.firstCov = NoCoverage)
        => /\ probe.err = ""
           /\ probe.coverage = Zero
           /\ probe.needsTests = (threshold.num > 0)

C5_Witness ==
    /\ probe.ran /\ probe.exitOk /\ probe.firstCov = NoCoverage
    /\ ~probe.marker
    /\ threshold = DefaultThreshold
    /\ probe.needsTests

\* C6: on every return of an AnalyzeFile call that invoked the runner, the
\* coverage.out the runner wrote, in the directory it wrote it in, is gone.
C6_CoverageReportRemoved ==
    (probe.ran /\ probe.wrote) => probe.ranIn \notin covOut

\* C7: the working directory after AnalyzeFile and after validateGeneratedCode
\* is the one before the call, on every exit path, so every file is processed
\* from the directory the process started in.
C7_WorkingDirectoryRestored == cwd = cwd0

C7_Witness ==
    /\ build = "resolved"
    /\ cwd0 = <<"scripts">>
    /\ probe.ran
    /\ "validate" \in stages[probe.entry]
    /\ \E i \in 1..Len(changed) : i # probe.entry /\ "analyze" \in stages[i]

\* the descriptors returned for item k of the source file
DescriptorsOf(k) == {i \in 1..Len(functions.list) : functions.list[i].Decl = k}

Returned == pc = "returned" /\ src.readable /\ src.parses

StartsWithReservedPrefix(name) ==
    \/ (Len(name) >= 4 /\ SubSeq(name, 1, 4) = <<"T", "e", "s", "t">>)
    \/ (Len(name) >= 9
            /\ SubSeq(name, 1, 9) = <<"B", "e", "n", "c", "h", "m", "a", "r", "k">>)

\* C8: ExtractModifiedFunctions never returns a descriptor whose name starts
\* with "Test" or "Benchmark".
C8_NoTestFunctionSelected ==
    \A i \in 1..Len(functions.list) : ~StartsWithReservedPrefix(functions.list[i].Name)

FileLines == SplitLines(src.items)

\* C10: one descriptor per selected declaration, in source order, each with
\* 1 <= StartLine <= EndLine and a Content that is the file's lines StartLine
\* through EndLine, each followed by a newline.
C10_DescriptorsInOrderWithContent ==
    Returned =>
        /\ \A k \in 1..Len(src.items) : Cardinality(DescriptorsOf(k)) <= 1
        /\ \A i, j \in 1..Len(functions.list) :
               i < j => functions.list[i].Decl < functions.list[j].Decl
        /\ \A i \in 1..Len(functions.list) :
               LET d == functions.list[i]
               IN  /\ 1 <= d.StartLine /\ d.StartLine <= d.EndLine
                   /\ d.EndLine <= Len(FileLines)
                   /\ Len(d.Content) = 2 * (d.EndLine - d.StartLine + 1)
                   /\ \A j \in d.StartLine..d.EndLine :
                          /\ d.Content[2 * (j - d.StartLine) + 1] = FileLines[j]
                          /\ d.Content[2 * (j - d.StartLine) + 2] = NL

\* the lines of a text that declare a package: "package" is the first word
PackageDeclarations(text) ==
    LET lines == Split(text)
    IN  {i \in 1..Len(lines) :
            TrimSpace(lines[i]) # <<>> /\ TrimSpace(lines[i])[1] = "package"}

\* C11: for every generated text and every package name, the empty one
\* included, cleanupGeneratedCode returns a text with exactly one package
\* declaration line and at least one reference to the "testing" import.
C11_OnePackageLineAndTestingImport ==
    (pc = "returned" /\ gen.called)
        => /\ Cardinality(PackageDeclarations(gen.testContent)) = 1
           /\ \E i \in 1..Len(gen.testContent) : gen.testContent[i] = TestingImport

\* GenerateTests returned to its caller
GenerateReturned == pc = "returned" /\ gen.called /\ ~gen.panicked

\* the text segments of the first candidate of the answer, joined in order
FirstCandidateText ==
    LET parts == gen.resp.candidates[1].parts
        texts == SelectSeq(parts, LAMBDA part : part.text)
    IN  Concat([i \in 1..Len(texts) |-> texts[i].s])

\* C12: GenerateTests returns an artifact without an error only when the
\* generation call succeeded, answered with a candidate and the validation
\* passed, and the artifact is then not empty; a failed generation call, an
\* answer without candidates and a failed validation each give an error and
\* no artifact.  The text used is that of the text segments of the first
\* candidate, in order.
C12_ArtifactOnlyAfterValidation ==
    GenerateReturned =>
        /\ gen.err = ""
               => /\ gen.invoked /\ ~gen.resp.err /\ Len(gen.resp.candidates) >= 1
                  /\ gen.validated /\ gen.validErr = ""
                  /\ gen.testContent # <<>>
        /\ (gen.invoked /\ (gen.resp.err \/ Len(gen.resp.candidates) = 0))
               => gen.err # "" /\ gen.testContent = <<>> /\ ~gen.validated
        /\ gen.validErr # "" => gen.err # "" /\ gen.testContent = <<>>
        /\ gen.validated => gen.generatedCode = FirstCandidateText

C12_Witness ==
    /\ GenerateReturned
    /\ gen.err = ""
    /\ gen.resp.candidates =
           <<Candidate(<<TextPart(PackageLine), TextPart(CodeLine)>>),
             Candidate(<<TextPart(ImportLine)>>)>>
    /\ gen.generatedCode = PackageLine \o CodeLine
    /\ gen.testContent # <<>>

\* C13: when the original file cannot be read, GenerateTests returns the read
\* error and the generation call is never made.
C13_UnreadableFileNoGeneration ==
    (pc = "returned" /\ gen.called /\ FactorialGo \notin files)
        => /\ gen.err = "failed to read original file"
           /\ ~gen.invoked
           /\ gen.testContent = <<>>

C13_Witness ==
    /\ pc = "returned"
    /\ gen.called
    /\ FactorialGo \notin files
    /\ cwd0 = <<"scripts">>
    /\ gen.err = "failed to read original file"

\* the last CreateTestPR call and the requests it sent, by position in the log
call == remote.call

Requests(op) == {i \in (call.from + 1)..Len(remote.log) : remote.log[i].op = op}

\* the branch lookup of the call was answered by the remote
BranchLookedUp == call.called /\ call.fault.at \notin {"get main ref", "get branch ref"}

\* C14: a branch that exists when CreateTestPR starts is deleted first and
\* then created again at the head of main resolved in step 1; its existence
\* alone is no error and its old ref is not reused.  When the lookup answers
\* not-found no delete is sent and the branch is created.
C14_StaleBranchReplaced ==
    BranchLookedUp =>
        /\ call.before.exists
               => /\ Cardinality(Requests("DeleteRef")) = 1
                  /\ \A d \in Requests("DeleteRef"), n \in Requests("CreateRef") : d < n
                  /\ call.fault.at # "delete ref" => Cardinality(Requests("CreateRef")) = 1
        /\ ~call.before.exists
               => /\ Requests("DeleteRef") = {}
                  /\ Cardinality(Requests("CreateRef")) = 1
        /\ \A n \in Requests("CreateRef") :
               /\ remote.log[n].ref = call.branchName
               /\ remote.log[n].sha = call.mainBefore
        /\ (call.fault = NoFault /\ call.race = "none") => call.err = "" /\ ~call.panicked
        /\ (call.err = "" /\ ~call.panicked)
               => /\ remote.branches[call.branchName].exists
                  /\ ~remote.branches[call.branchName].stale
                  /\ remote.branches[call.branchName].sha.base = call.mainBefore.base
                  /\ Len(remote.branches[call.branchName].sha.writes) = 1

C14_Witness ==
    /\ pc = "published"
    /\ call.before = Stale(<<[path |-> TestFileOf(FactorialGo), blob |-> EarlierBlob]>>)
    /\ call.race = "main"
    /\ call.err = ""
    /\ remote.main = Commit(2, <<>>)
    /\ remote.branches[call.branchName].sha.base = 1

\* the file lookup of the call was answered by the remote
FileLookedUp ==
    call.called /\ Requests("GetContents") # {} /\ call.fault.at # "get contents"

\* the test file as the branch holds it now
FileOnBranch ==
    FileAt(remote, remote.branches[call.branchName].sha, call.testFileName)

\* C15: when the file lookup on the branch answers not-found,
\* createOrUpdateFile sends exactly one create request, without a content
\* hash, and no update request.
C15_AbsentFileCreated ==
    (FileLookedUp /\ ~call.onMain)
        => /\ Cardinality(Requests("CreateFile")) = 1
           /\ Requests("UpdateFile") = {}
           /\ \A i \in Requests("CreateFile") :
                  /\ remote.log[i].fileSHA = NoBlob
                  /\ remote.log[i].path = call.testFileName
                  /\ remote.log[i].ref = call.branchName

C15_Witness ==
    /\ pc = "published"
    /\ FileLookedUp
    /\ ~call.onMain
    /\ call.before.exists
    /\ call.err = ""
    /\ FileOnBranch.by = "publisher"

\* C16: when the file exists on the branch, createOrUpdateFile sends exactly
\* one update request whose precondition is the content hash the lookup
\* returned; when another writer changes the file between the lookup and the
\* update, the update is rejected, publishing fails and the other writer's
\* content stays.
C16_ExistingFileUpdatedWithHash ==
    (FileLookedUp /\ call.onMain)
        => /\ Cardinality(Requests("UpdateFile")) = 1
           /\ Requests("CreateFile") = {}
           /\ \A i \in Requests("UpdateFile") :
                  /\ remote.log[i].fileSHA = MainBlob
                  /\ remote.log[i].path = call.testFileName
                  /\ remote.log[i].ref = call.branchName
           /\ call.race = "file"
                  => /\ call.err = "failed to create test file"
                     /\ call.cause = "failed to update file"
                     /\ FileOnBranch = OtherBlob
                     /\ Requests("CreatePR") = {}

C16_Witness ==
    /\ pc = "published"
    /\ FileLookedUp
    /\ call.onMain
    /\ call.race = "file"
    /\ call.fault = NoFault
    /\ call.err = "failed to create test file"
    /\ FileOnBranch = OtherBlob

\* the place of a request in the order of CreateTestPR's steps
StepOf(op, ref) ==
    CASE op = "GetRef" /\ ref = <<"main">> -> 1
      [] op = "GetRef"                     -> 2
      [] op = "DeleteRef"                  -> 3
      [] op = "CreateRef"                  -> 4
      [] op = "GetContents"                -> 5
      [] op \in {"CreateFile", "UpdateFile"} -> 6
      [] OTHER                             -> 7

\* the requests of the call, by position in the log
CallRequests == {i \in (call.from + 1)..Len(remote.log) : remote.log[i].op # "CreateComment"}

\* the error CreateTestPR returns for a step that failed
ErrorOf(step) ==
    CASE step = "get main ref"        -> "failed to get main branch ref"
      [] step = "get branch ref"      -> "failed to check branch existence"
      [] step = "delete ref"          -> "failed to delete existing branch"
      [] step = "create ref"          -> "failed to create branch"
      [] step = "create pull request" -> "failed to create pull request"
      [] OTHER                        -> "failed to create test file"

\* the request a failing step sends
FailedAt(step) ==
    {i \in CallRequests :
        StepOf(remote.log[i].op, remote.log[i].ref) =
            CASE step = "get main ref"   -> 1
              [] step = "get branch ref" -> 2
              [] step = "delete ref"     -> 3
              [] step = "create ref"     -> 4
              [] step = "get contents"   -> 5
              [] step = "put file"       -> 6
              [] OTHER                   -> 7}

\* C17: CreateTestPR makes its remote calls in the order resolve main, look up
\* branch, delete branch (if it exists), create branch, upsert file, open
\* pull request; when a step fails it returns an error naming the step and
\* makes no later call; it returns success only if every step succeeded.
C17_StepsInOrderAndFailFast ==
    call.called =>
        /\ \A i, j \in CallRequests :
               i < j => StepOf(remote.log[i].op, remote.log[i].ref)
                            < StepOf(remote.log[j].op, remote.log[j].ref)
        /\ \A step \in Steps :
               (call.fault.at = step /\ FailedAt(step) # {})
                   => /\ ~call.panicked
                      /\ call.err = ErrorOf(step)
                      /\ \A i \in FailedAt(step), j \in CallRequests : j <= i
        /\ (~call.panicked /\ call.err = "")
               => /\ call.fault.at = "never" \/ FailedAt(call.fault.at) = {}
                  /\ \E i \in CallRequests : remote.log[i].op = "CreatePR"

\* C18: the body of the pull request CreateTestPR opens names the original
\* file and states the measured coverage of that file and the coverage
\* threshold configured for the run, whatever that threshold is.
C18_BodyStatesConfiguredThreshold ==
    call.called =>
        \A i \in Requests("CreatePR") :
            /\ remote.log[i].body.file = probe.file
            /\ remote.log[i].body.coverage = Fixed2(probe.coverage)
            /\ remote.log[i].body.threshold = Fixed2(threshold)

\* the comment requests of the last CommentOnPR call, by position in the log
CommentRequests ==
    {i \in (remote.posted.from + 1)..Len(remote.log) : remote.log[i].op = "CreateComment"}

\* the values of the pr-number flag that are integers, and their values
IntegerFlags == {<<"1", "2">>, <<"+", "1", "2">>, <<"-", "3">>, <<"7">>}

FlagValue ==
    CASE prNumber = <<"-", "3">> -> 0 - 3
      [] prNumber = <<"7">>      -> 7
      [] OTHER                   -> 12

\* C19: CommentOnPR with an empty identifier succeeds without a remote call;
\* with a non-empty identifier that is no integer it fails as invalid without
\* a remote call; with an integer it sends exactly one comment request and
\* fails exactly if that request fails.
C19_CommentOnPR ==
    remote.posted.called =>
        /\ prNumber = <<>> => remote.posted.err = "" /\ CommentRequests = {}
        /\ (prNumber # <<>> /\ prNumber \notin IntegerFlags)
               => remote.posted.err = "invalid PR number" /\ CommentRequests = {}
        /\ prNumber \in IntegerFlags
               => /\ Cardinality(CommentRequests) = 1
                  /\ \A i \in CommentRequests : remote.log[i].number = FlagValue
                  /\ remote.posted.err # ""
                         <=> (remote.posted.fault # NoFault \/ FlagValue \notin Issues)
                  /\ remote.posted.err = "" <=> Len(remote.comments) = 1

C19_Witness ==
    /\ pc = "returned"
    /\ remote.posted.called
    /\ prNumber = <<"+", "1", "2">>
    /\ remote.posted.err = ""
    /\ Len(remote.comments) = 1
    /\ remote.comments[1].message.file = FactorialGo

\* the entry main worked on last, once the loop is between two entries
Between == pc \in {"analyze", "done"} /\ probe.called

\* the stages of the pipeline after a stage, by the comment that reports
\* the failure of that stage
LaterStages(kind) ==
    CASE kind = "failed to analyze coverage"  -> {"extract", "generate", "validate", "publish"}
      [] kind = "failed to extract functions" -> {"generate", "validate", "publish"}
      [] kind = "failed to generate tests"    -> {"publish"}
      [] OTHER                                -> {}

\* the failure the stages of the last entry returned: the comment that
\* reports it, "" when every stage that ran returned no error
StageError ==
    LET ran == stages[probe.entry]
    IN  IF probe.err # "" THEN "failed to analyze coverage"
        ELSE IF "extract" \in ran /\ functions.err # "" THEN "failed to extract functions"
        ELSE IF ran \cap {"generate", "validate"} # {} /\ gen.err # ""
        THEN "failed to generate tests"
        ELSE IF "publish" \in ran /\ remote.call.err # "" THEN "failed to create PR"
        ELSE ""

\* C20: when a stage returns an error for a changed file, no later stage runs
\* for that file, exactly one failure comment that names the file is attempted
\* on the review request the run came from, and the loop goes on: every entry
\* up to the current one was taken up, and a completed run took up them all.
C20_StageErrorEndsFileOnly ==
    /\ (Between /\ StageError # "") =>
          /\ stages[probe.entry] \cap LaterStages(StageError) = {}
          /\ CommentsOn(probe.entry)
                 = <<[entry |-> probe.entry, kind |-> StageError,
                      file |-> changed[probe.entry], number |-> prNumber]>>
          /\ remote.posted.called
          /\ Len(remote.log) = remote.posted.from + 1
          /\ remote.log[Len(remote.log)]
                 = [op |-> "CreateComment", number |-> 12,
                    message |-> [kind |-> StageError, file |-> changed[probe.entry]]]
          /\ idx > probe.entry
          /\ \A j \in (probe.entry + 1)..(idx - 1) : changed[j] = Blank
    /\ \A i \in 1..Len(changed) :
          /\ Len(CommentsOn(i)) <= 1
          /\ (i < idx /\ changed[i] # Blank) => "analyze" \in stages[i]
          /\ \A k \in 1..Len(comments) :
                 comments[k].entry = i
                     => stages[i] \cap LaterStages(comments[k].kind) = {}
    /\ pc = "done" => idx = Len(changed) + 1

C20_Witness ==
    /\ pc = "done"
    /\ Len(changed) = 2
    /\ Len(comments) = 2
    /\ comments[1].kind = "failed to generate tests"
    /\ comments[2].kind = "generated unit tests"
    /\ stages[2] = {"analyze", "extract", "validate", "publish"}

\* how often main called the operation for entry i
CallsOf(i, name) ==
    Cardinality({k \in 1..Len(calls) : calls[k].entry = i /\ calls[k].op = name})

\* the requests main sent to the remote for entry i, by position in calls
RequestsOf(i) == {k \in 1..Len(calls) : calls[k].entry = i /\ calls[k].op = "request"}

\* main is past the analysis of entry i
Analyzed(i) == i < idx \/ (i = idx /\ pc \notin {"analyze", "done"})

\* C21: in a run, for each non-blank entry of the changed-file list,
\* AnalyzeFile is called exactly once, GenerateTests and CreateTestPR at most
\* once, and no external operation (the runner, the generation call, a request
\* to the remote) is made a second time; nothing is called for a blank entry.
C21_EachStageOncePerEntry ==
    /\ \A k \in 1..Len(calls) : calls[k].op # "log" => calls[k].entry \in 1..Len(changed)
    /\ \A i \in 1..Len(changed) :
          /\ changed[i] = Blank => \A k \in 1..Len(calls) : calls[k].entry # i
          /\ CallsOf(i, "AnalyzeFile") = (IF changed[i] # Blank /\ Analyzed(i) THEN 1 ELSE 0)
          /\ CallsOf(i, "GenerateTests") <= 1
          /\ CallsOf(i, "CreateTestPR") <= 1
          /\ CallsOf(i, "go test") <= 1
          /\ CallsOf(i, "GenerateContent") <= 1
          /\ \A k, l \in RequestsOf(i) : calls[k].req = calls[l].req => k = l

C21_Witness ==
    /\ pc = "done"
    /\ Len(changed) = 2
    /\ CallsOf(1, "CreateTestPR") = 1
    /\ CallsOf(1, "GenerateContent") = 1
    /\ Cardinality(RequestsOf(1)) > 5
    /\ comments[1].kind = "failed to create PR"
    /\ CallsOf(2, "go test") = 1
    /\ CallsOf(2, "GenerateTests") = 0
    /\ probe.err # ""

\* the entries main published: those it commented on with the success message
PublishedEntries ==
    {i \in 1..Len(changed) : \E k \in 1..Len(comments) :
         comments[k].entry = i /\ comments[k].kind = "generated unit tests"}

\* the remote holds what publishing file f produces: its branch, its test
\* file committed on that branch, and an open pull request for it from there
EndStateOf(f) ==
    LET b == remote.branches[createBranchName(f)]
    IN  /\ b.exists
        /\ LastWrite(b.sha.writes, TestFileOf(f)) # NoBlob
        /\ \E k \in 1..Len(remote.prs) :
               /\ remote.prs[k].open
               /\ remote.prs[k].head = createBranchName(f)
               /\ remote.prs[k].body.file = f

\* C22: what publishing a changed file leaves on the remote (its branch, its
\* test file on that branch, its open pull request) stays as it is whichever
\* other files the run processes afterwards, files of the same directory
\* included.
C22_FilesIndependent ==
    (/\ \A i, j \in 1..Len(changed) : changed[i] = changed[j] => i = j
     /\ \A k \in 1..Len(comments) : comments[k].kind # "failed to create PR")
        => \A i \in PublishedEntries : EndStateOf(changed[i])

\* C23: with an empty changed-file list the process sends nothing to the
\* remote, takes up no file and ends cleanly, not with a fatal error, whatever
\* the other flags are.
C23_EmptyListExitsCleanly ==
    changed = <<>> =>
        /\ pc \in {"start", "parsed", "exited"}
        /\ remote.log = <<>> /\ calls = <<>>
        /\ pc = "exited" => config.exit = "clean"

\* the comments of this run do not arrive: the pr-number flag is no number,
\* or the remote has no pull request of that number
CommentsFail == prNumber = <<"a">> \/ prNumber = <<"7">>

\* the CommentOnPR calls main made, by position in calls
CommentCalls == {k \in 1..Len(calls) : calls[k].op = "CommentOnPR"}

\* C24: a comment that cannot be posted does not change the run: main goes
\* on with the next entry and reaches its completion, and the failure of the
\* comment is logged.
C24_CommentFailureOnlyLogged ==
    CommentsFail =>
        /\ \A k \in CommentCalls :
               /\ idx > calls[k].entry
               /\ pc \in {"analyze", "extract", "generate", "publish", "done", "crashed"}
               /\ \E l \in (k + 1)..Len(calls) :
                      /\ calls[l].op = "log"
                      /\ calls[l].entry = calls[k].entry
        /\ pc = "done" => idx = Len(changed) + 1

\* the part of C24 about the course of the run
CommentFailureKeepsRun ==
    CommentsFail =>
        /\ \A k \in CommentCalls : idx > calls[k].entry
        /\ remote.comments = <<>>
        /\ Len(comments) = Cardinality(CommentCalls)
        /\ pc = "done" => idx = Len(changed) + 1

\* the open pull requests from the branch of the last CreateTestPR call
OpenFromBranch ==
    {k \in 1..Len(remote.prs) : remote.prs[k].open /\ remote.prs[k].head = call.branchName}

\* C25: whatever an earlier CreateTestPR run for the branch name left on the
\* remote (the branch, the file on it, an open pull request), a later run
\* whose remote calls all work succeeds and leaves the branch at main's head
\* plus the new test file, and one open pull request from it.
C25_PublishAgainSucceeds ==
    (call.called /\ call.fault = NoFault /\ call.race = "none") =>
        LET b == remote.branches[call.branchName]
        IN  /\ call.err = "" /\ ~call.panicked
            /\ b.exists /\ ~b.stale
            /\ b.sha.base = remote.main.base
            /\ Len(b.sha.writes) = 1
            /\ b.sha.writes[1].path = call.testFileName
            /\ b.sha.writes[1].blob.by = "publisher"
            /\ b.sha.writes[1].blob.content.text = gen.testContent
            /\ OpenFromBranch = {Len(remote.prs)}
            /\ remote.prs[Len(remote.prs)].body.file = FactorialGo

C25_Witness ==
    /\ call.called /\ call.fault = NoFault /\ call.race = "none"
    /\ call.before.stale
    /\ call.before.sha.writes # <<>>
    /\ Len(remote.prs) = 2
    /\ ~remote.prs[1].open
    /\ remote.prs[2].open
    /\ call.err = ""

\* the lookup of the last call that failed with something other than not-found
LookupFailed(step) ==
    /\ call.called /\ call.fault.at = step /\ call.fault.kind \in {"error", "none"}
    /\ FailedAt(step) # {}

\* C26: when the branch lookup of CreateTestPR or the file lookup of
\* createOrUpdateFile fails with an error other than not-found, an error that
\* comes without any response included, the call returns the error of that
\* lookup, does not crash, and sends no delete, create or update request.
C26_LookupErrorReturned ==
    /\ LookupFailed("get branch ref") =>
           /\ ~call.panicked
           /\ call.err = "failed to check branch existence"
           /\ Requests("DeleteRef") \cup Requests("CreateRef") \cup Requests("CreateFile")
                  \cup Requests("UpdateFile") \cup Requests("CreatePR") = {}
    /\ LookupFailed("get contents") =>
           /\ ~call.panicked
           /\ call.err = "failed to create test file"
           /\ call.cause = "failed to check file existence"
           /\ Requests("CreateFile") \cup Requests("UpdateFile") \cup Requests("CreatePR") = {}

\* the part of C26 about lookups that fail with a response
LookupErrorWithResponse ==
    call.fault.kind = "error" => C26_LookupErrorReturned

\* the lines of the file that are import specs, by position
ImportLines == {i \in 1..Len(gen.lines) : gen.lines[i].kind \in {"spec", "single"}}

\* the imports of the file, in source order
RECURSIVE ImportsFrom(_)
ImportsFrom(i) ==
    IF i > Len(gen.lines) THEN <<>>
    ELSE (IF i \in ImportLines THEN <<gen.lines[i].entry>> ELSE <<>>) \o ImportsFrom(i + 1)

\* C27: extractPackageInfo returns, in source order, one entry for every
\* non-blank, non-comment line between "import (" and ")" and one for every
\* single-line import statement outside, nothing for a file without imports,
\* and as package name the one the file's package line declares.
C27_PackageInfo ==
    (pc = "returned" /\ gen.lines # <<>>) =>
        /\ gen.imports = ImportsFrom(1)
        /\ ImportLines = {} => gen.imports = <<>>
        /\ gen.packageName = <<"calc">>

\* the part of C27 about files whose comments hold no line that starts like
\* a package clause or an import
PackageInfoWithoutSuchComments ==
    (\A i \in 1..Len(gen.lines) :
         gen.lines[i].kind = "comment" => Head(gen.lines[i].text) \notin {"package", "import"})
        => C27_PackageInfo

\* what main called for entry i, apart from writing log lines
CalledFor(i) == {calls[k].op : k \in {l \in 1..Len(calls) : calls[l].entry = i}} \ {"log"}

\* AnalyzeFile reported the last entry as not needing tests
Sufficient == Between /\ probe.err = "" /\ ~probe.needsTests

\* the extraction selected no function of the last entry
NothingSelected ==
    /\ Between /\ probe.err = "" /\ probe.needsTests
    /\ "extract" \in stages[probe.entry]
    /\ functions.err = "" /\ Len(functions.list) = 0

\* C28: for a file AnalyzeFile reports as not needing tests, and for a file
\* of which the extraction selects no function, main makes no generation
\* call and no remote call, a comment included, and goes on to the next file.
C28_SkippedFileTouchesNothing ==
    /\ Sufficient =>
           /\ CalledFor(probe.entry) \subseteq {"AnalyzeFile", "go test"}
           /\ stages[probe.entry] = {"analyze"}
           /\ CommentsOn(probe.entry) = <<>>
           /\ idx > probe.entry
    /\ NothingSelected =>
           /\ CalledFor(probe.entry) \subseteq {"AnalyzeFile", "go test", "ExtractModifiedFunctions"}
           /\ stages[probe.entry] = {"analyze", "extract"}
           /\ CommentsOn(probe.entry) = <<>>
           /\ idx > probe.entry

C28_Witness ==
    /\ NothingSelected
    /\ pc = "done"
    /\ probe.entry = 2
    /\ probe.file = DocGo
    /\ stages[1] = {"analyze"}
    /\ comments = <<>>
    /\ remote.log = <<>>
    /\ \E k \in 1..Len(calls) :
           /\ calls[k].entry = 1 /\ calls[k].op = "log"
           /\ calls[k].req.line = "sufficient coverage, skipping"

\* the history before call k on the Calculator
HistoryBefore(k) == IF k = 1 THEN <<>> ELSE calc.log[k - 1].history

\* the sign an operation is recorded with
SignOf(op) ==
    CASE op = "Add" -> "+" [] op = "Subtract" -> "-" [] op = "Multiply" -> "*" [] OTHER -> "/"

\* the entries of the calls from..Len(calc.log) that are successful calls of
\* one of ops, in call order
RECURSIVE EntriesOf(_, _)
EntriesOf(from, ops) ==
    IF from > Len(calc.log) THEN <<>>
    ELSE LET c == calc.log[from]
         IN  (IF c.op \in ops /\ c.err = ""
              THEN <<Sprintf(calc.pkg, SignOf(c.op), c.a, c.b, c.result)>>
              ELSE <<>>) \o EntriesOf(from + 1, ops)

\* a Divide by zero returns an error and 0 and leaves the history as it
\* was, and so does GetHistory
RefusedAndReadOnly ==
    \A k \in 1..Len(calc.log) :
        /\ (calc.log[k].op = "Divide" /\ calc.log[k].b = Whole(0))
               => /\ calc.log[k].err # "" /\ calc.log[k].result = Whole(0)
                  /\ calc.log[k].history = HistoryBefore(k)
        /\ (calc.log[k].op = "Divide" /\ calc.log[k].b # Whole(0)) => calc.log[k].err = ""
        /\ calc.log[k].op = "GetHistory" => calc.log[k].history = HistoryBefore(k)

\* C29 as stated: after any sequence of calls on a new Calculator the history
\* holds exactly one entry per successful Add, Multiply or Divide call, in
\* call order, with the call's operands and result; a Divide by zero returns
\* an error and 0 and leaves the history unchanged; GetHistory leaves it
\* unchanged.
C29_HistoryOfAddMultiplyDivide ==
    calc.made =>
        /\ calc.history = EntriesOf(1, {"Add", "Multiply", "Divide"})
        /\ RefusedAndReadOnly

\* the first call after the last ClearHistory
SinceCleared ==
    LET cleared == {k \in 1..Len(calc.log) : calc.log[k].op = "ClearHistory"}
    IN  IF cleared = {} THEN 1 ELSE 1 + CHOOSE k \in cleared : \A l \in cleared : l <= k

\* C29, amended: the history holds exactly one entry per successful Add,
\* Subtract, Multiply or Divide call made since the Calculator was created or
\* its history last cleared, in call order, with the call's operands and
\* result; a Divide by zero returns an error and 0 and leaves the history
\* unchanged; GetHistory leaves it unchanged.
C29_HistorySinceCleared ==
    calc.made =>
        /\ calc.history = EntriesOf(SinceCleared, {"Add", "Subtract", "Multiply", "Divide"})
        /\ RefusedAndReadOnly

C29_Witness ==
    /\ calc.made /\ calc.pkg = "main"
    /\ Len(calc.log) = 2
    /\ calc.log[1].op = "Divide" /\ calc.log[1].b = Whole(0)
    /\ calc.log[2].op = "Divide" /\ calc.log[2].a = Whole(2) /\ calc.log[2].b = Whole(0 - 3)
    /\ calc.history = <<<<"2", ".", "0", "0", " ", "/", " ", "-", "3", ".", "0", "0", " ", "=", " ",
                          "-", "0", ".", "6", "7">>>>

\* the value of an int in decimal: whether it is negative, and the digits
\* of its magnitude
IsZeroWord(x) == \A i \in 1..Len(x) : x[i] = 0

RECURSIVE DivTen(_)
DivTen(x) ==
    IF x = <<>> THEN [q |-> <<>>, r |-> 0]
    ELSE LET hi == DivTen(Tail(x))
             v  == Limb * hi.r + Head(x)
         IN  [q |-> <<v \div 10>> \o hi.q, r |-> v % 10]

RECURSIVE Magnitude(_)
Magnitude(x) == IF IsZeroWord(x) THEN <<>> ELSE Magnitude(DivTen(x).q) \o <<DivTen(x).r>>

RECURSIVE PlusOne(_)
PlusOne(x) ==
    IF x = <<>> THEN <<>>
    ELSE IF Head(x) = Limb - 1 THEN <<0>> \o PlusOne(Tail(x)) ELSE <<Head(x) + 1>> \o Tail(x)

Negated(x) == PlusOne([i \in 1..Len(x) |-> Limb - 1 - x[i]])

Decimal(x) ==
    IF IsZeroWord(x) THEN [neg |-> FALSE, digits |-> <<0>>]
    ELSE IF x[Len(x)] >= Limb \div 2 THEN [neg |-> TRUE, digits |-> Magnitude(Negated(x))]
         ELSE [neg |-> FALSE, digits |-> Magnitude(x)]

\* 0!, 1!, ..., 20!
FactorialOf ==
    <<<<1>>,
     <<1>>,
     <<2>>,
     <<6>>,
     <<2, 4>>,
     <<1, 2, 0>>,
     <<7, 2, 0>>,
     <<5, 0, 4, 0>>,
     <<4, 0, 3, 2, 0>>,
     <<3, 6, 2, 8, 8, 0>>,
     <<3, 6, 2, 8, 8, 0, 0>>,
     <<3, 9, 9, 1, 6, 8, 0, 0>>,
     <<4, 7, 9, 0, 0, 1, 6, 0, 0>>,
     <<6, 2, 2, 7, 0, 2, 0, 8, 0, 0>>,
     <<8, 7, 1, 7, 8, 2, 9, 1, 2, 0, 0>>,
     <<1, 3, 0, 7, 6, 7, 4, 3, 6, 8, 0, 0, 0>>,
     <<2, 0, 9, 2, 2, 7, 8, 9, 8, 8, 8, 0, 0, 0>>,
     <<3, 5, 5, 6, 8, 7, 4, 2, 8, 0, 9, 6, 0, 0, 0>>,
     <<6, 4, 0, 2, 3, 7, 3, 7, 0, 5, 7, 2, 8, 0, 0, 0>>,
     <<1, 2, 1, 6, 4, 5, 1, 0, 0, 4, 0, 8, 8, 3, 2, 0, 0, 0>>,
     <<2, 4, 3, 2, 9, 0, 2, 0, 0, 8, 1, 7, 6, 6, 4, 0, 0, 0, 0>>>>

\* the call has ended, one way or the other
Ended == fact.at \in {"returned", "panicked"}

\* both functions, called with n, do what C30 says of them
AsStated ==
    /\ ~Ended => ENABLED FactorialStep
    /\ fact.k \in (0 - 2)..(fact.n + 1) \/ fact.k = 2
    /\ Ended =>
        IF fact.n < 0
        THEN IF fact.pkg = "math" THEN fact.at = "panicked"
             ELSE /\ fact.at = "returned" /\ fact.err # ""
                  /\ Decimal(fact.result) = [neg |-> FALSE, digits |-> <<0>>]
        ELSE /\ fact.at = "returned" /\ fact.err = ""
             /\ Decimal(fact.result) = [neg |-> FALSE, digits |-> FactorialOf[fact.n + 1]]

\* C30: for every n in 0..20 math.Factorial ends and returns n!, and
\* factorial.Factorial returns the same value and a nil error; for every
\* n < 0 the first panics and the second returns 0 and an error; neither
\* runs forever.
C30_FactorialUpTo20 == fact.called => AsStated

\* what holds instead: so it is where int is 64 bits wide, and up to 12!
\* where it is 32 bits wide
FactorialWhereItFits == (fact.called /\ (fact.bits = 64 \/ fact.n <= 12)) => AsStated

\* 13! does not fit an int of 32 bits
ThirteenIn32Bits ==
    /\ fact.called /\ fact.bits = 32 /\ fact.n = 13 /\ fact.at = "returned"
    /\ Decimal(fact.result) = [neg |-> FALSE, digits |-> <<1, 9, 3, 2, 0, 5, 3, 5, 0, 4>>]

====
